---- MODULE Spec2Model ----
(***************************************************************************)
(* OCPP 1.6-J charge-point simulator: the CSMS side (CSMSChargePoint       *)
(* handlers, CentralSystem registry and heartbeat watchdog) and the        *)
(* scenario engine's event bus with its CSV tables (ScenarioBase).         *)
(*                                                                         *)
(* A connection is numbered in the order the server accepts it; the        *)
(* CSMSChargePoint object built for connection c is session[c].            *)
(***************************************************************************)
EXTENDS Integers, Sequences, FiniteSets, TLC

\* ------------------------------------------------------------------ bounds
MaxConn == 2        \* connections the server accepts in one run
MaxQueue == 2       \* frames in flight at one time
MaxCalls == 4       \* CALL frames the CPs send in one run
MaxLiveCalls == 2   \* the same, in a run under the clock
MaxTicks == 8       \* clock steps in one run
TicksPerSecond == 2 \* resolution of the clock below one second
MaxClockCalls == 3  \* CALL frames in a run under the sub-second clock
MaxHandledCalls == 3  \* CALL frames in a run that mixes every action
MaxBusEvents == 3   \* invocations of the event bus in a run of the bus alone
MaxTargets == 6     \* target CPs of a run of the connect phase alone
MaxClientCalls == 3 \* CALL frames one CP client writes in a run of the clients alone
MaxClockTicks == 3  \* sub-second clock steps in one run
MaxDuration == 4    \* `duration`: steps of a scenario's meter loop
MaxFailures == 1    \* OCPP calls that raise in one drive
MaxSocSteps == 1400 \* steps of a meter loop long enough to fill the battery

\* ------------------------------------------------------- program constants
CHECK_INTERVAL == 5             \* watchdog period, seconds
DEFAULT_HEARTBEAT_INTERVAL == 10
OFFLINE_FACTOR == 3             \* offline_threshold = hb_int * 3
MAX_RETRIES == 3                \* max_retries: int = 3
BATCH_SIZE == 5                 \* batch_size = 5
BACKOFF_TENTHS == 5             \* wait_time = 0.5 * (attempt + 1), in 1/10 s
FIRST_TX_ID == 1                \* self._next_tx_id = 1
REJECTED_TX_ID == 0             \* transaction_id=0 of a rejected start
NoneInt == -1                   \* Python None where an int is expected
BASE_POWER_KW == 7              \* base_power_kw: float = 7.0
ATTACK_TRIGGER_PERCENT == 60    \* attack_trigger_ratio: float = 0.6
BATTERY_CAPACITY_KWH == 60      \* battery_capacity_kwh: float = 60.0
INITIAL_SOC_PERCENT == 20       \* soc_state = {cp.id: 20.0 for cp in cps}
SECONDS_PER_HOUR == 3600        \* dt_hours = 1.0 / 3600.0
NORMAL_POWER_KW == 11           \* normal_power_kw: float = 11.0
ATTACK_POWER_KW == -22          \* attack_power_kw: float = -22.0
RELAY_INITIAL_SOC_PERCENT == 50 \* current_soc_map = {cp.id: 50.0 for cp in cps}
SOC_CHANGE_DIVISOR == 60        \* soc_change = (power_kw / 60.0) * 0.5
SOC_CHANGE_HALVING == 2         \* ... * 0.5
BASE_VOLTAGE == 230             \* base_voltage: float = 230.0
BASE_CURRENT == 32              \* base_current: float = 32.0
WATTS_PER_KW == 1000            \* power_kw = (voltage * current) / 1000.0

NoneStr == "None"               \* Python None where a string is expected

VALID_TAGS == {"YUNUS_TAG", "AYSE_TAG", "TEST123"}

\* ------------------------------------------------------------ input sets
CpIds == {"CP_001", "CP_002"}
\* cp ids are interchangeable: the first connection of a run is this one's
FirstCpId == "CP_001"
IdTags == {"TEST123", "BAD_TAG"}
ConnectorIds == {1, 2}
TxIds == {1}
Conns == 1..MaxConn
\* the clock is observed once per watchdog period
TimeStep == CHECK_INTERVAL
MaxTime == MaxTicks * TimeStep

VARIABLES
    nconn,          \* connections accepted so far
    transport,      \* transport[c]: "none" | "open" | "closing" | "closed"
    running,        \* running[c]: _on_connect is inside `await cp.start()`
    session,        \* session[c]: the CSMSChargePoint of connection c
    active_cps,     \* CentralSystem._active_cps, in insertion order
    wire,           \* wire[c]: frames sent by the CP, not yet dispatched
    arrived,        \* arrived[c]: frames that arrived on connection c
    events,         \* every call of the engine's event callback, in order
    replies,        \* every CALLRESULT the CSMS produced, in order
    raw_rows, hb_rows, status_rows, mv_rows, tx_rows,   \* typed CSV tables
    csv_rows,       \* the unified labelled table
    step_counter,   \* ScenarioBase._step_counter
    bus,            \* the _on_event invocation in progress: [at, event],
                    \* and what will raise in the next one: fault
    client,         \* client[c]: the SimulatedChargePoint of connection c
    now,            \* the clock, seconds since the CSMS started
    subsec,         \* the clock's part below one second, in 1/TicksPerSecond
    wd,             \* the watchdog task: [pc, wake, at, items]
    engine,         \* ScenarioBase.run: its position and what it holds
    scenario        \* run_for_all_charge_points: its position and locals

vars == <<nconn, transport, running, session, active_cps, wire, arrived,
          events, replies, raw_rows, hb_rows, status_rows, mv_rows, tx_rows,
          csv_rows, step_counter, bus, client, now, subsec, wd, engine,
          scenario>>

clock == <<now, subsec>>

driver == <<engine, scenario>>

\* the CSV tables and the invocation that writes them
tables == <<raw_rows, hb_rows, status_rows, mv_rows, tx_rows, csv_rows,
            step_counter, bus>>

\* ------------------------------------------------------------- the registry
\* A Python dict keeps insertion order; assigning an existing key keeps its
\* place and replaces the value.
DictHas(d, k) == \E i \in 1..Len(d) : d[i].cp_id = k

DictSet(d, k, v) ==
    IF DictHas(d, k)
    THEN [i \in 1..Len(d) |-> IF d[i].cp_id = k THEN [cp_id |-> k, cp |-> v] ELSE d[i]]
    ELSE Append(d, [cp_id |-> k, cp |-> v])

DictPop(d, k) == SelectSeq(d, LAMBDA e : e.cp_id # k)

\* ---------------------------------------------------------------- sessions
NoConnector == [status |-> NoneStr, last_tx_id |-> NoneInt]

\* `self._authorized_tags = set()`: a fresh set for every session
SharedAuthorizedTags == UNION {session[c].authorized_tags : c \in Conns}

InitialAuthorizedTags == {}

NewSession(cp_id) ==
    [id |-> cp_id,
     next_tx_id |-> FIRST_TX_ID,
     last_heartbeat |-> NoneInt,
     heartbeat_interval |-> DEFAULT_HEARTBEAT_INTERVAL,
     connectors |-> [k \in ConnectorIds |-> NoConnector],
     authorized_tags |-> InitialAuthorizedTags]

\* the slot of a connection that was not accepted yet
NoSession ==
    [id |-> NoneStr, next_tx_id |-> FIRST_TX_ID, last_heartbeat |-> NoneInt,
     heartbeat_interval |-> DEFAULT_HEARTBEAT_INTERVAL,
     connectors |-> [k \in ConnectorIds |-> NoConnector], authorized_tags |-> {}]

\* -------------------------------------------------------------- timestamps
\* an instant, in clock units of 1/TicksPerSecond second
\* `datetime.utcnow().isoformat()`: the clock with its sub-second part
UtcNow == now * TicksPerSecond + subsec

\* charge_point._utc_now_iso: `.replace(microsecond=0)`
UtcNowIso == (UtcNow \div TicksPerSecond) * TicksPerSecond

\* ------------------------------------------------------------ wire frames
Msg(action, connector_id, id_tag, transaction_id, status) ==
    [action |-> action, connector_id |-> connector_id, id_tag |-> id_tag,
     transaction_id |-> transaction_id, status |-> status, n |-> 0,
     timestamp |-> NoneInt, power_kw |-> NoneInt, soc_percent |-> NoneInt]

\* the calls whose request carries `timestamp=_utc_now_iso()`
TimestampedCalls == {"StatusNotification", "StartTransaction", "StopTransaction"}

\* the frame as SimulatedChargePoint.send_* builds it when it is sent
Stamped(m) ==
    IF m.action \in TimestampedCalls THEN [m EXCEPT !.timestamp = UtcNowIso] ELSE m

\* authorization and transaction traffic
TxCalls ==
    {Msg("Authorize", NoneInt, t, NoneInt, NoneStr) : t \in IdTags}
    \cup {Msg("StartTransaction", 1, t, NoneInt, NoneStr) : t \in IdTags}
    \cup {Msg("MeterValues", 1, NoneStr, x, NoneStr) : x \in TxIds}
    \cup {Msg("StopTransaction", NoneInt, NoneStr, x, NoneStr) : x \in TxIds}

\* traffic that mixes CSMS-stamped and CP-stamped events
ClockCalls ==
    {Msg("Authorize", NoneInt, "TEST123", NoneInt, NoneStr),
     Msg("StartTransaction", 1, "TEST123", NoneInt, NoneStr),
     Msg("StatusNotification", 1, NoneStr, NoneInt, "Available"),
     Msg("MeterValues", 1, NoneStr, FIRST_TX_ID, NoneStr),
     Msg("StopTransaction", NoneInt, NoneStr, FIRST_TX_ID, NoneStr)}

\* boot, liveness and status traffic
LivenessCalls ==
    {Msg("BootNotification", NoneInt, NoneStr, NoneInt, NoneStr),
     Msg("Heartbeat", NoneInt, NoneStr, NoneInt, NoneStr),
     Msg("StatusNotification", 1, NoneStr, NoneInt, "Available")}

\* ----------------------------------------------------------------- events
\* the `meter_value` key of a payload that is not a MeterValues payload
NoMeterValue == [power_kw |-> NoneInt, soc_percent |-> NoneInt]

Event(message_type, c, n, connector_id, id_tag, transaction_id, status) ==
    [message_type |-> message_type, cp_id |-> session[c].id, conn |-> c, n |-> n,
     connector_id |-> connector_id, id_tag |-> id_tag,
     transaction_id |-> transaction_id, status |-> status,
     timestamp |-> UtcNow, meter_value |-> NoMeterValue]

\* `"meter_value": meter_value`: the sampled values travel inside this key,
\* the payload has no key of its own for any of them
WithMeterValue(e, m) ==
    [e EXCEPT !.meter_value = [power_kw |-> m.power_kw,
                               soc_percent |-> m.soc_percent]]

\* the handler put the request's own timestamp into the payload
WithTimestamp(e, timestamp) == [e EXCEPT !.timestamp = timestamp]

Reply(c, m, status, transaction_id) ==
    [conn |-> c, n |-> m.n, action |-> m.action, status |-> status,
     transaction_id |-> transaction_id]

\* `cp_list: list[str] | None = None`: no list given
NoneList == <<>>

\* SimulatedChargePoint before connect_charge_point creates it
NoClient ==
    [heartbeat_interval |-> 0, boot_accepted |-> FALSE, dispatcher |-> FALSE,
     loop |-> "none", heartbeats |-> 0, ended_at |-> NoneInt]

\* ScenarioBase.run before it is called
NoEngine ==
    [pc |-> "idle", stations |-> 0, cp_list |-> NoneList, target_cp_ids |-> <<>>,
     gave_up |-> 0, cps |-> <<>>, abandoned |-> {}, retry |-> <<>>, batch |-> 0,
     csms |-> "none", drive_raised |-> FALSE, traceback_logged |-> FALSE,
     outcome |-> "none"]

\* run_for_all_charge_points before it is called
NoScenario ==
    [kind |-> NoneStr, mode |-> NoneStr, duration |-> 0, id_tag |-> NoneStr,
     phase |-> "none", idx |-> 0, sub |-> NoneStr, step |-> 0, waiting |-> FALSE,
     tx_ids |-> [k \in CpIds |-> NoneInt], attack_triggered |-> FALSE,
     soc_state |-> [k \in CpIds |-> 0], failures |-> 0]

Init ==
    /\ nconn = 0
    /\ transport = [c \in Conns |-> "none"]
    /\ running = [c \in Conns |-> FALSE]
    /\ session = [c \in Conns |-> NoSession]
    /\ active_cps = <<>>
    /\ wire = [c \in Conns |-> <<>>]
    /\ arrived = [c \in Conns |-> 0]
    /\ events = <<>>
    /\ replies = <<>>
    /\ raw_rows = <<>>
    /\ hb_rows = <<>>
    /\ status_rows = <<>>
    /\ mv_rows = <<>>
    /\ tx_rows = <<>>
    /\ csv_rows = <<>>
    /\ step_counter = 0
    /\ bus = [at |-> "idle", event |-> NoneStr, fault |-> "none"]
    /\ client = [c \in Conns |-> NoClient]
    /\ now = 0
    /\ subsec = 0
    /\ wd = [pc |-> "sleep", wake |-> CHECK_INTERVAL, at |-> 0, items |-> <<>>]
    /\ engine = NoEngine
    /\ scenario = NoScenario

\* ------------------------------------------------- event bus and CSV tables
\* `event.get("timestamp") or _utc_now_iso()`
RowTimestamp(e) == IF e.timestamp = NoneInt THEN UtcNowIso ELSE e.timestamp

RawRow(e) ==
    [timestamp |-> RowTimestamp(e), cp_id |-> e.cp_id,
     message_type |-> e.message_type, raw_payload |-> e]

HeartbeatRow(e) ==
    [timestamp |-> RowTimestamp(e), cp_id |-> e.cp_id, raw_payload |-> e]

StatusRow(e) ==
    [timestamp |-> RowTimestamp(e), cp_id |-> e.cp_id,
     connector_id |-> e.connector_id, status |-> e.status, raw_payload |-> e]

MeterRow(e) ==
    [timestamp |-> RowTimestamp(e), cp_id |-> e.cp_id,
     transaction_id |-> e.transaction_id, connector_id |-> e.connector_id,
     power_kw |-> e.meter_value.power_kw,
     soc_percent |-> e.meter_value.soc_percent,
     raw_payload |-> e]

TransactionRow(e) ==
    [timestamp |-> RowTimestamp(e), cp_id |-> e.cp_id,
     event_type |-> e.message_type, transaction_id |-> e.transaction_id,
     id_tag |-> e.id_tag, raw_payload |-> e]

\* `event.get("power_kw", 0)`: the payload of no handler has this key
EventPowerKw(e) == 0

\* `event.get("power_kw")`: the same key, without a default
EventPowerKwOrNone(e) == NoneInt

\* `if power_kw is not None and power_kw == 0.0`
ZeroPower(e) == EventPowerKwOrNone(e) # NoneInt /\ EventPowerKwOrNone(e) = 0

\* get_label_for_event of the scenario the engine runs
get_label_for_event(kind, mode, e) ==
    CASE kind = NoneStr -> NoneStr
      [] mode = "normal" -> "normal"
      [] e.message_type = "MeterValues" /\ kind = "reverse_charging" ->
            IF EventPowerKw(e) < 0 THEN "reverse_charging_anomaly"
            ELSE "relay_attack_latency"
      [] e.message_type = "MeterValues" /\ kind = "dalgali_yuk" -> "oscillatory_load_attack"
      [] e.message_type = "MeterValues" /\ kind = "sfed" -> "sfed_attack"
      [] e.message_type = "StopTransaction" /\ kind = "sebeke_istikrarsizligi" ->
            "mass_transaction_termination_attack"
      [] e.message_type = "StopTransaction" /\ kind = "uzaktan_komut_taklidi" ->
            "remote_command_spoofing_attack"
      [] e.message_type = "MeterValues" /\ kind = "sebeke_istikrarsizligi" ->
            IF ZeroPower(e) THEN "mass_transaction_termination_attack"
            ELSE "attack_meta"
      [] e.message_type = "MeterValues" /\ kind = "uzaktan_komut_taklidi" ->
            IF ZeroPower(e) THEN "remote_command_spoofing_attack"
            ELSE "attack_meta"
      [] OTHER -> "attack_meta"

\* ScenarioBase._event_to_row, for an event that is not a Heartbeat
EventToRow(e, step) ==
    [timestamp |-> RowTimestamp(e),
     charge_point_id |-> e.cp_id, step |-> step, message_type |-> e.message_type,
     transaction_id |-> e.transaction_id, connector_id |-> e.connector_id,
     id_tag |-> e.id_tag, power_kw |-> e.meter_value.power_kw,
     soc_percent |-> e.meter_value.soc_percent,
     label |-> get_label_for_event(scenario.kind, scenario.mode, e),
     raw_payload |-> e]

\* csv.DictWriter.writerow on an append-only file
PrependRow(table, row) == <<row>> \o table

WriteRow(table, row) == Append(table, row)

\* ScenarioBase._log_realistic: 1) the raw event table
WriteRaw(e) == raw_rows' = WriteRow(raw_rows, RawRow(e))

\* 2) the table of the message type
WriteTyped(e) ==
    /\ hb_rows' = IF e.message_type = "Heartbeat"
                  THEN WriteRow(hb_rows, HeartbeatRow(e)) ELSE hb_rows
    /\ status_rows' = IF e.message_type = "StatusNotification"
                      THEN WriteRow(status_rows, StatusRow(e)) ELSE status_rows
    /\ mv_rows' = IF e.message_type = "MeterValues"
                  THEN WriteRow(mv_rows, MeterRow(e)) ELSE mv_rows
    /\ tx_rows' = IF e.message_type \in {"StartTransaction", "StopTransaction"}
                  THEN WriteRow(tx_rows, TransactionRow(e)) ELSE tx_rows

LogRealistic(e) == WriteRaw(e) /\ WriteTyped(e)

\* `if message_type == "Heartbeat": return None`
ProducesRowAlways(message_type) == TRUE

ProducesRow(message_type) == message_type # "Heartbeat"

\* `self._step_counter += 1; step = self._step_counter`
SameStep(counter) == counter

NextStep(counter) == counter + 1

\* `row = self._event_to_row(...)`; `self._csv_writer.writerow(row)`
WriteUnified(e) ==
    IF ~ProducesRow(e.message_type)
    THEN UNCHANGED <<csv_rows, step_counter>>
    ELSE /\ step_counter' = NextStep(step_counter)
         /\ csv_rows' = WriteRow(csv_rows, EventToRow(e, NextStep(step_counter)))

\* the message types _log_realistic has a table for
HasTypedTable(message_type) ==
    message_type \in {"Heartbeat", "StatusNotification", "MeterValues",
                      "StartTransaction", "StopTransaction"}

\* the faults of one invocation: a hook raises, or the writerow of one table
Faults == {"hook", "raw", "typed", "unified"}

\* the invocation raises out of _on_event: a hook's exception is swallowed
\* there (`except Exception: pass`), a writer's is not
RaisesOut(fault, e) ==
    \/ fault = "raw"
    \/ fault = "typed" /\ HasTypedTable(e.message_type)
    \/ fault = "unified" /\ ProducesRow(e.message_type)

\* the exception reaches the handler that fired the event: _handle_event and
\* _fire_event both wrap the callback in `try ... except Exception`
Uncaught(fault, e) == RaisesOut(fault, e)

ReachesHandler(fault, e) == FALSE

\* the next invocation of the bus will hit this fault
Inject(fault) ==
    /\ bus.fault = "none"
    /\ \E c \in Conns : wire[c] # <<>>
    /\ bus' = [bus EXCEPT !.fault = fault]
    /\ UNCHANGED <<nconn, transport, running, session, active_cps, wire, arrived,
                   events, replies, raw_rows, hb_rows, status_rows, mv_rows,
                   tx_rows, csv_rows, step_counter, client, clock, wd, driver>>

\* ScenarioBase._on_event, reached through CSMSChargePoint._fire_event and
\* CentralSystem._handle_event
OnEventLost(e) == UNCHANGED <<events, tables>>

OnEvent(e) ==
    /\ events' = Append(events, e)
    /\ bus' = [bus EXCEPT !.fault = "none"]
    /\ CASE bus.fault = "raw" ->
              UNCHANGED <<raw_rows, hb_rows, status_rows, mv_rows, tx_rows,
                          csv_rows, step_counter>>
         [] bus.fault = "typed" /\ HasTypedTable(e.message_type) ->
              /\ WriteRaw(e)
              /\ UNCHANGED <<hb_rows, status_rows, mv_rows, tx_rows, csv_rows,
                             step_counter>>
         [] bus.fault = "unified" /\ ProducesRow(e.message_type) ->
              /\ LogRealistic(e)
              /\ step_counter' = NextStep(step_counter)
              /\ csv_rows' = csv_rows
         [] OTHER ->
              /\ LogRealistic(e)
              /\ WriteUnified(e)

\* the writes of one invocation, in the order _on_event makes them
WriteOrderTypedFirst == <<"typed", "raw", "unified">>

WriteOrder == <<"raw", "typed", "unified">>

\* the write that follows write number i, or none
WriteAfter(i) == IF i < Len(WriteOrder) THEN WriteOrder[i + 1] ELSE "idle"

WritePlace(at) == CHOOSE i \in 1..Len(WriteOrder) : WriteOrder[i] = at

\* the events the bus is called with, one of each message type
BusMessageTypes ==
    {"BootNotification", "Heartbeat", "StatusNotification", "Authorize",
     "StartTransaction", "StartTransactionRejected", "MeterValues",
     "StopTransaction", "CPOffline"}

BusEvent(message_type) ==
    [message_type |-> message_type, cp_id |-> FirstCpId, conn |-> 1, n |-> 0,
     connector_id |-> NoneInt, id_tag |-> NoneStr, transaction_id |-> NoneInt,
     status |-> NoneStr, timestamp |-> NoneInt, meter_value |-> NoMeterValue]

\* _on_event is entered: the hooks ran, no table is written yet
BusCall(e) ==
    /\ bus.at = "idle"
    /\ Len(events) < MaxBusEvents
    /\ events' = Append(events, e)
    /\ bus' = [bus EXCEPT !.at = WriteOrder[1], !.event = e]
    /\ UNCHANGED <<nconn, transport, running, session, active_cps, wire, arrived,
                   replies, raw_rows, hb_rows, status_rows, mv_rows, tx_rows,
                   csv_rows, step_counter, client, clock, wd, driver>>

\* `self._raw_writer.writerow(...)`; `self._raw_file.flush()`
BusWriteRaw ==
    /\ bus.at = "raw"
    /\ WriteRaw(bus.event)
    /\ bus' = [bus EXCEPT !.at = WriteAfter(WritePlace("raw"))]
    /\ UNCHANGED <<nconn, transport, running, session, active_cps, wire, arrived,
                   events, replies, hb_rows, status_rows, mv_rows, tx_rows,
                   csv_rows, step_counter, client, clock, wd, driver>>

\* the write and flush of the typed table, if the message type has one
BusWriteTyped ==
    /\ bus.at = "typed"
    /\ WriteTyped(bus.event)
    /\ bus' = [bus EXCEPT !.at = WriteAfter(WritePlace("typed"))]
    /\ UNCHANGED <<nconn, transport, running, session, active_cps, wire, arrived,
                   events, replies, raw_rows, csv_rows, step_counter, client, clock, wd,
                   driver>>

\* the write and flush of the unified table, unless _event_to_row gave None
BusWriteUnified ==
    /\ bus.at = "unified"
    /\ WriteUnified(bus.event)
    /\ bus' = [bus EXCEPT !.at = WriteAfter(WritePlace("unified"))]
    /\ UNCHANGED <<nconn, transport, running, session, active_cps, wire, arrived,
                   events, replies, raw_rows, hb_rows, status_rows, mv_rows,
                   tx_rows, client, clock, wd, driver>>

\* the process dies between two writes; every written row was flushed
BusCrash ==
    /\ bus.at \notin {"idle", "crashed"}
    /\ bus' = [bus EXCEPT !.at = "crashed"]
    /\ UNCHANGED <<nconn, transport, running, session, active_cps, wire, arrived,
                   events, replies, raw_rows, hb_rows, status_rows, mv_rows,
                   tx_rows, csv_rows, step_counter, client, clock, wd, driver>>

\* ----------------------------------------------------- the CP side of a wire
RECURSIVE InFlight(_)
InFlight(c) == IF c = 0 THEN 0 ELSE Len(wire[c]) + InFlight(c - 1)

RECURSIVE Sent(_)
Sent(c) == IF c = 0 THEN 0 ELSE arrived[c] + Sent(c - 1)

\* `await self.call(req)`: the frame goes onto the wire
Transmit(c, m) ==
    /\ arrived' = [arrived EXCEPT ![c] = @ + 1]
    /\ wire' = [wire EXCEPT ![c] = Append(@, [Stamped(m) EXCEPT !.n = arrived[c] + 1])]

\* the CP writes one CALL frame
Send(c, m) ==
    /\ transport[c] = "open"
    /\ InFlight(MaxConn) < MaxQueue
    /\ Sent(MaxConn) < MaxCalls
    /\ Transmit(c, m)
    /\ UNCHANGED <<nconn, transport, running, session, active_cps, events,
                   replies, tables, client, clock, wd, driver>>

\* the same in a run under the clock
SendLive(c, m) == Sent(MaxConn) < MaxLiveCalls /\ Send(c, m)

\* the same in a run under the sub-second clock
SendClocked(c, m) == Sent(MaxConn) < MaxClockCalls /\ Send(c, m)

\* the same in a run that mixes every action
SendHandled(c, m) == Sent(MaxConn) < MaxHandledCalls /\ Send(c, m)

\* the CP closes its transport, or the connection is lost
ClientClose(c) ==
    /\ transport[c] \in {"open", "closing"}
    /\ transport' = [transport EXCEPT ![c] = "closed"]
    /\ wire' = [wire EXCEPT ![c] = <<>>]
    /\ UNCHANGED <<nconn, running, session, active_cps, arrived, events,
                   replies, tables, client, clock, wd, driver>>

\* ------------------------------------------------ the CP client on its own
\* The CSMS a client talks to is its environment here: what a call gets back
\* is an input.
\* the BootNotification results a CSMS can send: status and interval
BootStatuses == {"Accepted", "Pending", "Rejected"}

BootIntervals == {0, DEFAULT_HEARTBEAT_INTERVAL, 2 * DEFAULT_HEARTBEAT_INTERVAL}

\* connect_charge_point: the websocket is open, the SimulatedChargePoint is
\* made, `asyncio.create_task(cp.start())`, and the boot call is sent
ClientDial(c) ==
    /\ transport[c] = "none"
    /\ transport' = [transport EXCEPT ![c] = "open"]
    /\ client' = [client EXCEPT ![c] =
                      [NoClient EXCEPT !.heartbeat_interval = DEFAULT_HEARTBEAT_INTERVAL,
                                       !.dispatcher = TRUE, !.loop = "boot"]]
    /\ Transmit(c, Msg("BootNotification", NoneInt, NoneStr, NoneInt, NoneStr))
    /\ UNCHANGED <<nconn, running, session, active_cps, events, replies, tables,
                   clock, wd, driver>>

\* `if getattr(res, "interval", None): self._heartbeat_interval = int(res.interval)`
IntervalAfterBoot(old, status, interval) == IF interval # 0 THEN interval ELSE old

\* send_boot_notification got its result; start_heartbeat_loop makes the task
BootAnswered(c, status, interval) ==
    /\ client[c].loop = "boot"
    /\ transport[c] = "open"
    /\ client' = [client EXCEPT ![c] =
                      [@ EXCEPT !.boot_accepted = (status = "Accepted"),
                                !.heartbeat_interval =
                                    IntervalAfterBoot(@, status, interval),
                                !.loop = "sleeping"]]
    /\ UNCHANGED <<nconn, transport, running, session, active_cps, wire, arrived,
                   events, replies, tables, clock, wd, driver>>

\* the boot call raised: connect_charge_point raises, no loop is started
BootRaised(c) ==
    /\ client[c].loop = "boot"
    /\ client' = [client EXCEPT ![c].loop = "never"]
    /\ UNCHANGED <<nconn, transport, running, session, active_cps, wire, arrived,
                   events, replies, tables, clock, wd, driver>>

\* the frames a client wrote are counted and bounded
ClientWrites(c, m) ==
    /\ arrived[c] < MaxClientCalls
    /\ Transmit(c, m)

\* `await asyncio.sleep(self._heartbeat_interval)` returned: the Heartbeat
\* call is made
HeartbeatDue(c) ==
    /\ client[c].loop = "sleeping"
    /\ ClientWrites(c, Msg("Heartbeat", NoneInt, NoneStr, NoneInt, NoneStr))
    /\ client' = [client EXCEPT ![c].loop = "calling", ![c].heartbeats = @ + 1]
    /\ UNCHANGED <<nconn, transport, running, session, active_cps, events, replies,
                   tables, clock, wd, driver>>

\* the Heartbeat call returned: the next pass of `while True`
HeartbeatAnswered(c) ==
    /\ client[c].loop = "calling"
    /\ transport[c] = "open"
    /\ client' = [client EXCEPT ![c].loop = "sleeping"]
    /\ UNCHANGED <<nconn, transport, running, session, active_cps, wire, arrived,
                   events, replies, tables, clock, wd, driver>>

\* `except Exception as exc: ... break`
LoopGoesOn == "sleeping"

LoopAfterError == "ended"

\* the Heartbeat call raised: a timeout or a closed transport
HeartbeatFailed(c) ==
    /\ client[c].loop = "calling"
    /\ client' = [client EXCEPT ![c].loop = LoopAfterError,
                                ![c].ended_at = arrived[c]]
    /\ UNCHANGED <<nconn, transport, running, session, active_cps, wire, arrived,
                   events, replies, tables, clock, wd, driver>>

\* a scenario makes a call on the CP
ClientCall(c) ==
    /\ client[c].loop \in {"sleeping", "calling", "ended"}
    /\ transport[c] = "open"
    /\ ClientWrites(c, Msg("StatusNotification", 1, NoneStr, NoneInt, "Available"))
    /\ UNCHANGED <<nconn, transport, running, session, active_cps, events, replies,
                   tables, client, clock, wd, driver>>

\* the connection is closed or lost; the dispatcher's read loop ends with it
ClientLost(c) ==
    /\ transport[c] = "open"
    /\ transport' = [transport EXCEPT ![c] = "closed"]
    /\ client' = [client EXCEPT ![c].dispatcher = FALSE]
    /\ UNCHANGED <<nconn, running, session, active_cps, wire, arrived, events,
                   replies, tables, clock, wd, driver>>

\* ------------------------------------------------------ the CSMS dispatcher
\* cp.start(): frames are read and routed one at a time, in arrival order
NextMessage(q) == Head(q)

Receivable(c, action) ==
    /\ running[c]
    /\ transport[c] \in {"open", "closing"}
    /\ wire[c] # <<>>
    /\ NextMessage(wire[c]).action = action

\* a handler ran: new session state s, one event e, the CALLRESULT r
Handled(c, s, e, r) ==
    /\ OnEvent(e)
    /\ IF ReachesHandler(bus.fault, e)
       THEN UNCHANGED <<session, replies>>
       ELSE /\ session' = [session EXCEPT ![c] = s]
            /\ replies' = Append(replies, r)
    /\ wire' = [wire EXCEPT ![c] =
                   SelectSeq(@, LAMBDA x : x.n # NextMessage(wire[c]).n)]
    /\ UNCHANGED <<nconn, transport, running, active_cps, arrived, client, clock,
                   wd, driver>>

on_boot_notification(c) ==
    /\ Receivable(c, "BootNotification")
    /\ LET m == NextMessage(wire[c])
           s == session[c]
       IN Handled(c, [s EXCEPT !.last_heartbeat = now],
                  Event("BootNotification", c, m.n, NoneInt, NoneStr, NoneInt, NoneStr),
                  Reply(c, m, "Accepted", NoneInt))

on_heartbeat(c) ==
    /\ Receivable(c, "Heartbeat")
    /\ LET m == NextMessage(wire[c])
           s == session[c]
       IN Handled(c, [s EXCEPT !.last_heartbeat = now],
                  Event("Heartbeat", c, m.n, NoneInt, NoneStr, NoneInt, NoneStr),
                  Reply(c, m, NoneStr, NoneInt))

on_status_notification(c) ==
    /\ Receivable(c, "StatusNotification")
    /\ LET m == NextMessage(wire[c])
           s == session[c]
       IN Handled(c,
                  [s EXCEPT !.connectors[m.connector_id] =
                                [status |-> m.status, last_tx_id |-> NoneInt]],
                  WithTimestamp(
                      Event("StatusNotification", c, m.n, m.connector_id, NoneStr,
                            NoneInt, m.status),
                      IF m.timestamp = NoneInt THEN UtcNow ELSE m.timestamp),
                  Reply(c, m, NoneStr, NoneInt))

\* `if id_tag in VALID_TAGS`
AnyTagIsValid(id_tag) == TRUE

TagIsValid(id_tag) == id_tag \in VALID_TAGS

\* the set on_authorize leaves in self._authorized_tags
AddAlways(s, id_tag) == s.authorized_tags \cup {id_tag}

AuthorizedAfter(s, id_tag) ==
    IF TagIsValid(id_tag) THEN s.authorized_tags \cup {id_tag} ELSE s.authorized_tags

on_authorize(c) ==
    /\ Receivable(c, "Authorize")
    /\ LET m == NextMessage(wire[c])
           s == session[c]
           status == IF TagIsValid(m.id_tag) THEN "Accepted" ELSE "Invalid"
       IN Handled(c, [s EXCEPT !.authorized_tags = AuthorizedAfter(s, m.id_tag)],
                  Event("Authorize", c, m.n, NoneInt, m.id_tag, NoneInt, status),
                  Reply(c, m, status, NoneInt))

\* `authorized = id_tag in self._authorized_tags`
AuthorizedIfValid(s, id_tag) == id_tag \in VALID_TAGS

Authorized(s, id_tag) == id_tag \in s.authorized_tags

\* the accepted branch: `self._next_tx_id += 1`, the connector is Charging
\* and holds the transaction id
StartedNoRecord(s, connector_id, tx_id) ==
    [s EXCEPT !.next_tx_id = tx_id + 1,
              !.connectors[connector_id].status = "Charging"]

Started(s, connector_id, tx_id) ==
    [s EXCEPT !.next_tx_id = tx_id + 1,
              !.connectors[connector_id] =
                  [status |-> "Charging", last_tx_id |-> tx_id]]

on_start_transaction(c) ==
    /\ Receivable(c, "StartTransaction")
    /\ LET m == NextMessage(wire[c])
           s == session[c]
           tx_id == s.next_tx_id
       IN IF ~Authorized(s, m.id_tag)
          THEN Handled(c, s,
                       WithTimestamp(
                           Event("StartTransactionRejected", c, m.n, m.connector_id,
                                 m.id_tag, NoneInt, NoneStr),
                           m.timestamp),
                       Reply(c, m, "Invalid", REJECTED_TX_ID))
          ELSE Handled(c, Started(s, m.connector_id, tx_id),
                       WithTimestamp(
                           Event("StartTransaction", c, m.n, m.connector_id, m.id_tag,
                                 tx_id, NoneStr),
                           m.timestamp),
                       Reply(c, m, "Accepted", tx_id))

on_meter_values(c) ==
    /\ Receivable(c, "MeterValues")
    /\ LET m == NextMessage(wire[c])
       IN Handled(c, session[c],
                  WithMeterValue(
                      Event("MeterValues", c, m.n, m.connector_id, NoneStr,
                            m.transaction_id, NoneStr),
                      m),
                  Reply(c, m, NoneStr, NoneInt))

\* `for conn_id, info in self._connectors.items(): if info.get("last_tx_id")
\* == transaction_id: info["status"] = "Available"`
StoppedAll(s, transaction_id) ==
    [s EXCEPT !.connectors =
        [k \in ConnectorIds |->
            IF s.connectors[k] # NoConnector
            THEN [s.connectors[k] EXCEPT !.status = "Available"]
            ELSE s.connectors[k]]]

Stopped(s, transaction_id) ==
    [s EXCEPT !.connectors =
        [k \in ConnectorIds |->
            IF s.connectors[k] # NoConnector
               /\ s.connectors[k].last_tx_id = transaction_id
            THEN [s.connectors[k] EXCEPT !.status = "Available"]
            ELSE s.connectors[k]]]

on_stop_transaction(c) ==
    /\ Receivable(c, "StopTransaction")
    /\ LET m == NextMessage(wire[c])
           s == session[c]
       IN Handled(c, Stopped(s, m.transaction_id),
                  WithTimestamp(
                      Event("StopTransaction", c, m.n, NoneInt, NoneStr,
                            m.transaction_id, NoneStr),
                      m.timestamp),
                  Reply(c, m, NoneStr, NoneInt))

\* CentralSystem._on_connect up to `await cp.start()`
OnConnect(cp_id) ==
    /\ nconn < MaxConn
    /\ nconn = 0 => cp_id = FirstCpId
    /\ LET c == nconn + 1 IN
        /\ nconn' = c
        /\ transport' = [transport EXCEPT ![c] = "open"]
        /\ running' = [running EXCEPT ![c] = TRUE]
        /\ session' = [session EXCEPT ![c] = NewSession(cp_id)]
        /\ active_cps' = DictSet(active_cps, cp_id, c)
    /\ UNCHANGED <<wire, arrived, events, replies, tables, client, clock, wd, driver>>

\* CentralSystem._on_connect after cp.start() returned or raised: `finally`
OnDisconnect(c) ==
    /\ running[c]
    /\ transport[c] = "closed"
    /\ running' = [running EXCEPT ![c] = FALSE]
    /\ active_cps' = DictPop(active_cps, session[c].id)
    /\ UNCHANGED <<nconn, transport, session, wire, arrived, events, replies,
                   tables, client, clock, wd, driver>>

\* the path of a connection that names no charge point: "/" or ""
EmptyPath == ""

\* the paths a connection arrives with
Paths == CpIds \cup {EmptyPath}

\* f"CP_{len(self._active_cps) + 1:03d}"
GeneratedCpId(registry) ==
    CASE Len(registry) = 0 -> "CP_001"
      [] Len(registry) = 1 -> "CP_002"
      [] OTHER -> "CP_003"

\* path.lstrip("/") or the generated id
CpIdOfPath(path, registry) ==
    IF path = EmptyPath THEN GeneratedCpId(registry) ELSE path

\* CentralSystem._on_connect up to `await cp.start()`, for a connection
\* that arrives with `path`
OnConnectPath(path) ==
    /\ nconn < MaxConn
    /\ LET c == nconn + 1
           cp_id == CpIdOfPath(path, active_cps) IN
        /\ nconn' = c
        /\ transport' = [transport EXCEPT ![c] = "open"]
        /\ running' = [running EXCEPT ![c] = TRUE]
        /\ session' = [session EXCEPT ![c] = NewSession(cp_id)]
        /\ active_cps' = DictSet(active_cps, cp_id, c)
    /\ UNCHANGED <<wire, arrived, events, replies, tables, client, clock, wd, driver>>

\* ------------------------------------------------------------ the watchdog
\* the clock advances while the watchdog sleeps, never past its wake-up
\* time; a frame is not in flight for a whole clock step
Tick ==
    /\ wd.pc = "sleep"
    /\ now < wd.wake
    /\ \A c \in Conns : wire[c] = <<>>
    /\ now + TimeStep <= MaxTime
    /\ now' = now + TimeStep
    /\ UNCHANGED <<nconn, transport, running, session, active_cps, wire, arrived,
                   events, replies, tables, client, subsec, wd, driver>>

\* `await asyncio.sleep(CHECK_INTERVAL)` returns; `now = datetime.utcnow()`;
\* `list(self._active_cps.items())`
WatchdogWake ==
    /\ wd.pc = "sleep"
    /\ now = wd.wake
    /\ wd' = [wd EXCEPT !.pc = "scan", !.at = now, !.items = active_cps]
    /\ UNCHANGED <<nconn, transport, running, session, active_cps, wire, arrived,
                   events, replies, tables, client, clock, driver>>

\* `if diff > offline_threshold`, for a session whose last_heartbeat is known
Stale(s, at) == at - s.last_heartbeat > s.heartbeat_interval * OFFLINE_FACTOR

\* one iteration of the loop that does not evict
WatchdogSkip ==
    /\ wd.pc = "scan"
    /\ wd.items # <<>>
    /\ LET cp == session[Head(wd.items).cp]
       IN cp.last_heartbeat = NoneInt \/ ~Stale(cp, wd.at)
    /\ wd' = [wd EXCEPT !.items = Tail(@)]
    /\ UNCHANGED <<nconn, transport, running, session, active_cps, wire, arrived,
                   events, replies, tables, client, clock, driver>>

\* one iteration that evicts, up to `await cp.connection.close()`
WatchdogEvict ==
    /\ wd.pc = "scan"
    /\ wd.items # <<>>
    /\ LET cp_id == Head(wd.items).cp_id
           c == Head(wd.items).cp
           cp == session[c]
       IN /\ cp.last_heartbeat # NoneInt
          /\ Stale(cp, wd.at)
          /\ OnEvent([message_type |-> "CPOffline", cp_id |-> cp_id, conn |-> c,
                      n |-> 0, connector_id |-> NoneInt, id_tag |-> NoneStr,
                      transaction_id |-> NoneInt, status |-> NoneStr,
                      timestamp |-> NoneInt, meter_value |-> NoMeterValue])
          /\ session' = [session EXCEPT ![c].connectors =
                 [k \in ConnectorIds |->
                     IF cp.connectors[k] = NoConnector THEN NoConnector
                     ELSE [cp.connectors[k] EXCEPT !.status = "Unavailable"]]]
          /\ transport' = [transport EXCEPT ![c] =
                               IF @ = "open" THEN "closing" ELSE @]
    /\ wd' = [wd EXCEPT !.pc = "close"]
    /\ UNCHANGED <<nconn, running, active_cps, wire, arrived, replies, client,
                   clock, driver>>

\* the close returned; `self._active_cps.pop(cp_id, None)`
WatchdogClosed ==
    /\ wd.pc = "close"
    /\ LET cp_id == Head(wd.items).cp_id
           c == Head(wd.items).cp
       IN /\ transport' = [transport EXCEPT ![c] = "closed"]
          /\ wire' = [wire EXCEPT ![c] = <<>>]
          /\ active_cps' = DictPop(active_cps, cp_id)
    /\ wd' = [wd EXCEPT !.pc = "scan", !.items = Tail(@)]
    /\ UNCHANGED <<nconn, running, session, arrived, events, replies, tables, client, clock, driver>>

\* the loop is over: sleep again
WatchdogSleep ==
    /\ wd.pc = "scan"
    /\ wd.items = <<>>
    /\ wd' = [wd EXCEPT !.pc = "sleep", !.wake = now + CHECK_INTERVAL]
    /\ UNCHANGED <<nconn, transport, running, session, active_cps, wire, arrived,
                   events, replies, tables, client, clock, driver>>

\* the clock advances by one unit below a second; a run of this kind is
\* shorter than one watchdog period
ClockTick ==
    /\ UtcNow < MaxClockTicks
    /\ subsec' = (subsec + 1) % TicksPerSecond
    /\ now' = IF subsec + 1 = TicksPerSecond THEN now + 1 ELSE now
    /\ UNCHANGED <<nconn, transport, running, session, active_cps, wire, arrived,
                   events, replies, tables, client, wd, driver>>

\* ------------------------------------------------------ the catalog scenarios
\* run_for_all_charge_points of the scenarios that share one program shape:
\* initial status, authorize/start, meter loop (with the synchronized stop of
\* the mass-stop scenarios in attack mode), final stop.
Scenarios ==
    {"dalgali_yuk", "sfed", "sebeke_istikrarsizligi", "uzaktan_komut_taklidi"}

Modes == {"normal", "attack"}
\* the shortest meter loop and the longest
Durations == {1, MaxDuration}
\* the id_tag the scenario drives its CPs with: the literal of the catalog
\* scenarios, and a tag outside VALID_TAGS
ScenarioTags == {"YUNUS_TAG", "BAD_TAG"}

\* SoC is kept in units of 1/SocScale percent
SocScale == 1000 * 100
InitialSoc(kind) ==
    IF kind = "reverse_charging" THEN RELAY_INITIAL_SOC_PERCENT * SocScale
    ELSE INITIAL_SOC_PERCENT * SocScale
FullSoc == 100 * SocScale

\* the scenario wraps calls in try/except ... continue
Guarded(kind) == kind # "dalgali_yuk"

\* the call the program is at stands inside a try block
InTry(s) ==
    CASE s.kind = "dalgali_yuk" -> FALSE
      [] s.kind = "reverse_charging" -> s.phase \in {"auth", "meter"}
      [] OTHER -> ~(s.phase = "final" /\ s.sub = "available")

\* the scenarios with the synchronized StopTransaction
MassStop(kind) == kind \in {"sebeke_istikrarsizligi", "uzaktan_komut_taklidi"}

\* `int(duration * attack_trigger_ratio) if mode == "attack" else duration + 1`
attack_trigger_step(s) ==
    IF s.mode = "attack" THEN (s.duration * ATTACK_TRIGGER_PERCENT) \div 100
    ELSE s.duration + 1

\* the CP the loop `for cp in cps` is at, and its `cp.id`
CpAt(s) == engine.cps[s.idx]

CpIdAt(s) == session[CpAt(s)].id

\* `tx_ids.get(cp.id)`
TxIdAt(s) == s.tx_ids[CpIdAt(s)]

\* Python truthiness of a transaction id: None and 0 are falsy
Truthy(tx_id) == tx_id # NoneInt /\ tx_id # 0

Goto(s, phase, idx, sub) == [s EXCEPT !.phase = phase, !.idx = idx, !.sub = sub]

FirstSub(kind, phase) ==
    CASE phase = "status" -> "available"
      [] phase = "auth" -> "authorize"
      [] phase = "meter" -> "meter"
      [] phase = "final" /\ kind = "reverse_charging" -> "stop"
      [] OTHER -> "finishing"

\* `continue`, or the end of the loop body
NextCp(s) == Goto(s, s.phase, s.idx + 1, FirstSub(s.kind, s.phase))

\* `mode == "attack" and attack_triggered`
AfterAttack(s) == MassStop(s.kind) /\ s.mode = "attack" /\ s.attack_triggered

\* the meter loop sends MeterValues for this CP at this step
SendsMeter(s) ==
    CASE s.kind \in {"dalgali_yuk", "reverse_charging"} -> Truthy(TxIdAt(s))
      [] s.kind = "sfed" -> TxIdAt(s) # NoneInt
      [] OTHER -> AfterAttack(s) \/ TxIdAt(s) # NoneInt

\* power_kw of the MeterValues of this step; the random jitter around the
\* configured power is left out
BasePowerAlways(s) == BASE_POWER_KW

MeterPower(s) ==
    CASE s.kind = "reverse_charging" ->
            IF s.mode = "attack" THEN ATTACK_POWER_KW ELSE NORMAL_POWER_KW
      [] s.kind = "ssrf_attack" -> (BASE_VOLTAGE * BASE_CURRENT) \div WATTS_PER_KW
      [] AfterAttack(s) -> 0
      [] OTHER -> BASE_POWER_KW

Max(a, b) == IF a > b THEN a ELSE b

Min(a, b) == IF a < b THEN a ELSE b

\* `energy_kwh = max(power_kw, 0.0) * dt_hours`;
\* `delta_soc = (energy_kwh / battery_capacity_kwh) * 100.0`, one step of 1 s
DeltaSoc(power_kw) ==
    (Max(power_kw, 0) * 100 * SocScale) \div (SECONDS_PER_HOUR * BATTERY_CAPACITY_KWH)

\* reverse_charging: `soc_change = (power_kw / 60.0) * 0.5`
SocChange(power_kw) ==
    (power_kw * SocScale) \div (SOC_CHANGE_DIVISOR * SOC_CHANGE_HALVING)

\* ssrf_attack: `(power_kw / 60.0) * 0.5` with
\* `power_kw = (voltage * current) / 1000.0`
SsrfSocChange ==
    (BASE_VOLTAGE * BASE_CURRENT * SocScale)
        \div (WATTS_PER_KW * SOC_CHANGE_DIVISOR * SOC_CHANGE_HALVING)

\* the SoC the meter loop computes from the stored one
SocStep(s, soc) ==
    CASE s.kind = "reverse_charging" ->
            Max(0, Min(FullSoc, soc + SocChange(MeterPower(s))))
      [] s.kind = "ssrf_attack" ->
            IF soc < FullSoc THEN soc + SsrfSocChange ELSE soc
      [] AfterAttack(s) -> soc
      [] OTHER -> Min(FullSoc, soc + DeltaSoc(MeterPower(s)))

\* soc_state[cp.id] after the step: unchanged once the attack was triggered
SocAfter(s) == SocStep(s, s.soc_state[CpIdAt(s)])

\* send_meter_values: f"{soc_percent:.2f}", read back with float()
FormatSoc(soc) == ((soc + (SocScale \div 200)) \div (SocScale \div 100)) * (SocScale \div 100)

\* the top of `for step in range(1, duration + 1)`
LoopEntryOnce(s) ==
    IF s.step > 1 THEN Goto(s, "final", 1, FirstSub(s.kind, "final"))
    ELSE Goto(s, "meter", 1, "meter")

LoopEntry(s) ==
    IF s.step > s.duration THEN Goto(s, "final", 1, FirstSub(s.kind, "final"))
    ELSE IF MassStop(s.kind) /\ s.mode = "attack"
            /\ s.step >= attack_trigger_step(s) /\ ~s.attack_triggered
         THEN [Goto(s, "attack", 1, "finishing") EXCEPT !.attack_triggered = TRUE]
         ELSE Goto(s, "meter", 1, "meter")

\* the program is at an `await cp.send_*()`
AtCall(s) ==
    /\ s.phase \in {"status", "auth", "attack", "meter", "final"}
    /\ s.idx <= Len(engine.cps)
    /\ s.phase \in {"attack", "final"} /\ s.sub = FirstSub(s.kind, s.phase)
           => Truthy(TxIdAt(s))
    /\ s.phase = "meter" => SendsMeter(s)

\* one move of the program that sends nothing
Skip(s) ==
    CASE s.phase = "loop" -> LoopEntry(s)
      [] s.phase # "loop" /\ s.idx <= Len(engine.cps) -> NextCp(s)
      [] s.phase = "status" /\ s.idx > Len(engine.cps) -> Goto(s, "auth", 1, "authorize")
      [] s.phase = "auth" /\ s.idx > Len(engine.cps) ->
            [Goto(s, "loop", 1, NoneStr) EXCEPT !.step = 1]
      [] s.phase = "attack" /\ s.idx > Len(engine.cps) -> Goto(s, "meter", 1, "meter")
      [] s.phase = "meter" /\ s.idx > Len(engine.cps) ->
            [Goto(s, "loop", 1, NoneStr) EXCEPT !.step = s.step + 1]
      [] s.phase = "final" /\ s.idx > Len(engine.cps) -> Goto(s, "done", 0, NoneStr)

\* run the program up to its next call, or to its end
RECURSIVE Settle(_)
Settle(s) ==
    IF s.phase \in {"done", "raised"} \/ AtCall(s) THEN s ELSE Settle(Skip(s))

StatusCall(status) == Msg("StatusNotification", 1, NoneStr, NoneInt, status)

\* the request of the call the program is at
CallAt(s) ==
    CASE s.sub = "available" -> StatusCall("Available")
      [] s.sub = "authorize" -> Msg("Authorize", NoneInt, s.id_tag, NoneInt, NoneStr)
      [] s.sub = "preparing" -> StatusCall("Preparing")
      [] s.sub = "start" -> Msg("StartTransaction", 1, s.id_tag, NoneInt, NoneStr)
      [] s.sub = "charging" -> StatusCall("Charging")
      [] s.sub = "finishing" -> StatusCall("Finishing")
      [] s.sub = "stop" -> Msg("StopTransaction", NoneInt, NoneStr, TxIdAt(s), NoneStr)
      [] s.sub = "meter" ->
            [Msg("MeterValues", 1, NoneStr, TxIdAt(s), NoneStr)
                EXCEPT !.power_kw = MeterPower(s), !.soc_percent = FormatSoc(SocAfter(s))]

\* the call returned the CALLRESULT r
AfterReturn(s, r) ==
    CASE s.sub = "authorize" ->
            IF r.status # "Accepted" THEN NextCp(s) ELSE Goto(s, s.phase, s.idx, "preparing")
      [] s.sub = "preparing" -> Goto(s, s.phase, s.idx, "start")
      [] s.sub = "start" ->
            [Goto(s, s.phase, s.idx, "charging")
                EXCEPT !.tx_ids[CpIdAt(s)] = r.transaction_id]
      [] s.sub = "finishing" -> Goto(s, s.phase, s.idx, "stop")
      [] s.sub = "stop" -> Goto(s, s.phase, s.idx, "available")
      [] s.sub = "available" /\ s.phase = "attack" ->
            [NextCp(s) EXCEPT !.tx_ids[CpIdAt(s)] = NoneInt]
      [] OTHER -> NextCp(s)

\* the call raised: `except Exception: continue` where there is one
AfterRaise(s) ==
    IF s.phase = "final" /\ s.sub = "available" THEN Goto(s, "raised", 0, NoneStr)
    ELSE IF Guarded(s.kind) /\ InTry(s) THEN NextCp(s)
    ELSE Goto(s, "raised", 0, NoneStr)

\* the CALLRESULT of the call in flight has arrived
Answered(c) == \E i \in 1..Len(replies) : replies[i].conn = c /\ replies[i].n = arrived[c]

Answer(c) ==
    replies[CHOOSE i \in 1..Len(replies) : replies[i].conn = c /\ replies[i].n = arrived[c]]

\* `await cp.send_*()` sends its request
ScenarioCall ==
    /\ engine.pc = "drive"
    /\ ~scenario.waiting
    /\ AtCall(scenario)
    /\ Transmit(CpAt(scenario), CallAt(scenario))
    /\ scenario' = [scenario EXCEPT
                       !.waiting = TRUE,
                       !.soc_state[CpIdAt(scenario)] =
                           IF scenario.phase = "meter" THEN SocAfter(scenario) ELSE @]
    /\ UNCHANGED <<nconn, transport, running, session, active_cps, events, replies,
                   tables, client, clock, wd, engine>>

\* the call returns
ScenarioReturn ==
    /\ engine.pc = "drive"
    /\ scenario.waiting
    /\ Answered(CpAt(scenario))
    /\ scenario' = Settle([AfterReturn(scenario, Answer(CpAt(scenario)))
                              EXCEPT !.waiting = FALSE])
    /\ UNCHANGED <<nconn, transport, running, session, active_cps, wire, arrived,
                   events, replies, tables, client, clock, wd, engine>>

\* the call raises instead: a timeout or a transport error
ScenarioRaise ==
    /\ engine.pc = "drive"
    /\ scenario.waiting
    /\ ~Answered(CpAt(scenario))
    /\ scenario.failures < MaxFailures
    /\ scenario' = Settle([AfterRaise(scenario)
                              EXCEPT !.waiting = FALSE, !.failures = @ + 1])
    /\ UNCHANGED <<nconn, transport, running, session, active_cps, wire, arrived,
                   events, replies, tables, client, clock, wd, engine>>

\* ------------------------------------------------- the SoC integrators
\* the scenarios whose meter loop integrates a SoC
SocScenarios == Scenarios \cup {"reverse_charging", "ssrf_attack"}

\* the meter loop is entered with a transaction for the first CP
SocStart(kind, mode) ==
    /\ scenario = NoScenario
    /\ engine = NoEngine
    /\ scenario' = [scenario EXCEPT
                       !.kind = kind, !.mode = mode, !.duration = MaxSocSteps,
                       !.phase = "meter", !.step = 1,
                       !.attack_triggered =
                           MassStop(kind) /\ mode = "attack"
                               /\ 1 >= attack_trigger_step([mode |-> mode,
                                                            duration |-> MaxSocSteps]),
                       !.soc_state = [k \in CpIds |-> InitialSoc(kind)]]
    /\ UNCHANGED <<nconn, transport, running, session, active_cps, wire, arrived,
                   events, replies, tables, client, clock, wd, engine>>

\* one pass of the meter loop for the first CP: its SoC, and the attack
\* trigger test at the top of the next pass
SocIterate ==
    /\ scenario.phase = "meter"
    /\ engine = NoEngine
    /\ scenario.step <= scenario.duration
    /\ scenario' = [scenario EXCEPT
                       !.step = @ + 1,
                       !.soc_state[FirstCpId] = SocStep(scenario, @),
                       !.attack_triggered =
                           @ \/ (/\ MassStop(scenario.kind)
                                 /\ scenario.mode = "attack"
                                 /\ scenario.step + 1 <= scenario.duration
                                 /\ scenario.step + 1 >= attack_trigger_step(scenario))]
    /\ UNCHANGED <<nconn, transport, running, session, active_cps, wire, arrived,
                   events, replies, tables, client, clock, wd, engine>>

\* ------------------------------------------------------- ScenarioBase.run
InCps(c) == \E i \in 1..Len(engine.cps) : engine.cps[i] = c

\* connect_charge_point for this connection has neither returned nor raised
Pending(c) == c <= nconn /\ ~InCps(c) /\ c \notin engine.abandoned

PendingCount == nconn - Len(engine.cps) - Cardinality(engine.abandoned)

\* targets for which connect_with_retry has returned
Resolved == Len(engine.cps) + engine.gave_up

\* `f"CP_{idx:03d}"`
CpName(idx) == IF idx = 1 THEN "CP_001" ELSE "CP_002"

\* `target_cp_ids = cp_list` if a list was given, else CP_001 .. CP_<stations>
TargetCpIds(stations, cp_list) ==
    IF cp_list # NoneList THEN cp_list ELSE [idx \in 1..stations |-> CpName(idx)]

\* the engine opens its CSV files and starts the CSMS task
RunStart(kind, mode, duration, stations, id_tag) ==
    /\ engine.pc = "idle"
    /\ engine' = [engine EXCEPT !.pc = "connect", !.stations = stations,
                                !.target_cp_ids = TargetCpIds(stations, NoneList),
                                !.csms = "running"]
    /\ scenario' = [scenario EXCEPT !.kind = kind, !.mode = mode,
                                    !.duration = duration, !.id_tag = id_tag]
    /\ UNCHANGED <<nconn, transport, running, session, active_cps, wire, arrived,
                   events, replies, tables, client, clock, wd>>

\* connect_charge_point: `websockets.connect(csms_url)` is accepted
RunDial(cp_id) ==
    /\ engine.pc = "connect"
    /\ Resolved + PendingCount < engine.stations
    /\ OnConnect(cp_id)

\* the scenario module's run_scenario has a cp_list parameter
AcceptsCpList(kind) == kind # "dalgali_yuk"

\* the explicit CP id lists a command line gives
CpLists == {NoneList, <<"CP_001">>, <<"CP_001", "CP_002">>}

\* run_simulation: `await run_scenario(**scenario_kwargs)`, with the key
\* cp_list only when a list was given; an unexpected keyword is a TypeError
run_simulation(kind, mode, duration, stations, cp_list) ==
    /\ engine.pc = "idle"
    /\ scenario' = [scenario EXCEPT !.kind = kind, !.mode = mode,
                                    !.duration = duration, !.id_tag = "YUNUS_TAG"]
    /\ engine' =
          IF cp_list # NoneList /\ ~AcceptsCpList(kind)
          THEN [engine EXCEPT !.pc = "exit", !.stations = stations,
                              !.cp_list = cp_list, !.outcome = "raised"]
          ELSE [engine EXCEPT !.pc = "connect", !.stations = stations,
                              !.cp_list = cp_list,
                              !.target_cp_ids = TargetCpIds(stations, cp_list),
                              !.csms = "running"]
    /\ UNCHANGED <<nconn, transport, running, session, active_cps, wire, arrived,
                   events, replies, tables, client, clock, wd>>

\* --------------------------------------- connect_with_retry, target by target
\* `wait_time = 0.5 * (attempt + 1)`, in tenths of a second
ConstantWait(attempt) == BACKOFF_TENTHS

wait_time(attempt) == BACKOFF_TENTHS * (attempt + 1)

\* `range(batch_start, batch_end)`: the batch a target is connected in
BatchOf(i) == (i - 1) \div BATCH_SIZE

BatchCount(n) == (n + BATCH_SIZE - 1) \div BATCH_SIZE

\* connect_with_retry before its first attempt
NoRetry == [attempt |-> 0, at |-> "try", tries |-> 0, waited |-> <<>>, result |-> "none"]

\* the connect phase alone: the files are open, the CSMS task runs
ConnectPhase(stations) ==
    /\ engine.pc = "idle"
    /\ engine' = [engine EXCEPT !.pc = "connect", !.stations = stations,
                                !.target_cp_ids = [i \in 1..stations |-> "CP"],
                                !.retry = [i \in 1..stations |-> NoRetry],
                                !.csms = "running"]
    /\ UNCHANGED <<nconn, transport, running, session, active_cps, wire, arrived,
                   events, replies, tables, client, clock, wd, scenario>>

\* target i is in the batch that is being gathered and has not returned
Retrying(i) ==
    /\ engine.pc = "connect"
    /\ i \in 1..Len(engine.retry)
    /\ BatchOf(i) = engine.batch
    /\ engine.retry[i].at # "done"

\* `cp = await connect_charge_point(...)` returned: `return cp`
AttemptConnected(i) ==
    /\ Retrying(i)
    /\ engine.retry[i].at = "try"
    /\ engine' = [engine EXCEPT !.retry[i] =
                      [@ EXCEPT !.tries = @ + 1, !.at = "done", !.result = "cp"]]
    /\ UNCHANGED <<nconn, transport, running, session, active_cps, wire, arrived,
                   events, replies, tables, client, clock, wd, scenario>>

\* it raised: back off and `continue`, or `return None` after the last try
AttemptFailed(i) ==
    /\ Retrying(i)
    /\ engine.retry[i].at = "try"
    /\ LET r == engine.retry[i]
       IN engine' = [engine EXCEPT !.retry[i] =
              IF r.attempt < MAX_RETRIES - 1
              THEN [r EXCEPT !.tries = @ + 1, !.at = "sleep",
                             !.waited = Append(@, wait_time(r.attempt))]
              ELSE [r EXCEPT !.tries = @ + 1, !.at = "done", !.result = "None"]]
    /\ UNCHANGED <<nconn, transport, running, session, active_cps, wire, arrived,
                   events, replies, tables, client, clock, wd, scenario>>

\* `await asyncio.sleep(wait_time)` returned: the next pass of the loop
BackoffOver(i) ==
    /\ Retrying(i)
    /\ engine.retry[i].at = "sleep"
    /\ engine' = [engine EXCEPT !.retry[i] =
                      [@ EXCEPT !.attempt = @ + 1, !.at = "try"]]
    /\ UNCHANGED <<nconn, transport, running, session, active_cps, wire, arrived,
                   events, replies, tables, client, clock, wd, scenario>>

\* the targets of batch b whose connect_with_retry returned a CP, in order
RECURSIVE BatchResults(_, _)
BatchResults(b, i) ==
    IF i > Len(engine.retry) THEN <<>>
    ELSE IF BatchOf(i) = b /\ engine.retry[i].result = "cp"
    THEN <<i>> \o BatchResults(b, i + 1)
    ELSE BatchResults(b, i + 1)

\* `await asyncio.gather(*batch_tasks)` returned: `self._cps.append(result)`
\* for every result that is a CP
BatchGathered ==
    /\ engine.pc = "connect"
    /\ engine.retry # <<>>
    /\ engine.batch < BatchCount(Len(engine.retry))
    /\ \A i \in 1..Len(engine.retry) :
          BatchOf(i) = engine.batch => engine.retry[i].at = "done"
    /\ engine' = [engine EXCEPT !.cps = @ \o BatchResults(engine.batch, 1),
                                !.batch = @ + 1]
    /\ UNCHANGED <<nconn, transport, running, session, active_cps, wire, arrived,
                   events, replies, tables, client, clock, wd, scenario>>

\* every batch is gathered: `if not self._cps: return`, else the drive is
\* called with self._cps
ConnectPhaseDone ==
    /\ engine.pc = "connect"
    /\ engine.retry # <<>>
    /\ engine.batch = BatchCount(Len(engine.retry))
    /\ engine' = IF engine.cps = <<>>
                 THEN [engine EXCEPT !.pc = "exit", !.outcome = "returned"]
                 ELSE [engine EXCEPT !.pc = "drive"]
    /\ UNCHANGED <<nconn, transport, running, session, active_cps, wire, arrived,
                   events, replies, tables, client, clock, wd, scenario>>

\* connect_with_retry has an attempt under way for this target, or returned
\* its CP
Attempted(cp_id) ==
    \E c \in 1..nconn : session[c].id = cp_id /\ c \notin engine.abandoned

\* connect_charge_point for one of the targets: the websocket is accepted
ConnectTarget(cp_id) ==
    /\ engine.pc = "connect"
    /\ \E i \in 1..Len(engine.target_cp_ids) : engine.target_cp_ids[i] = cp_id
    /\ ~Attempted(cp_id)
    /\ OnConnect(cp_id)

\* connect_charge_point: `await cp.send_boot_notification()`
RunBoot(c) ==
    /\ engine.pc = "connect"
    /\ Pending(c)
    /\ arrived[c] = 0
    /\ Send(c, Msg("BootNotification", NoneInt, NoneStr, NoneInt, NoneStr))

\* connect_charge_point returns the CP: `self._cps.append(result)`
RunConnected(c) ==
    /\ engine.pc = "connect"
    /\ Pending(c)
    /\ arrived[c] = 1
    /\ Answered(c)
    /\ engine' = [engine EXCEPT !.cps = Append(@, c)]
    /\ UNCHANGED <<nconn, transport, running, session, active_cps, wire, arrived,
                   events, replies, tables, client, clock, wd, scenario>>

\* connect_charge_point raises after the websocket was opened: the boot call
\* failed, and the websocket stays open
RunBootFailed(c) ==
    /\ engine.pc = "connect"
    /\ Pending(c)
    /\ ~(arrived[c] = 1 /\ Answered(c))
    /\ engine' = [engine EXCEPT !.abandoned = @ \cup {c}]
    /\ UNCHANGED <<nconn, transport, running, session, active_cps, wire, arrived,
                   events, replies, tables, client, clock, wd, scenario>>

\* connect_with_retry returns None: every attempt for a target failed
RunGaveUp ==
    /\ engine.pc = "connect"
    /\ Resolved + PendingCount < engine.stations
    /\ engine' = [engine EXCEPT !.gave_up = @ + 1]
    /\ UNCHANGED <<nconn, transport, running, session, active_cps, wire, arrived,
                   events, replies, tables, client, clock, wd, scenario>>

\* every target is resolved: `if not self._cps: return`, else the drive starts
RunConnectDone ==
    /\ engine.pc = "connect"
    /\ Resolved = engine.stations
    /\ IF engine.cps = <<>>
       THEN /\ engine' = [engine EXCEPT !.pc = "exit", !.outcome = "returned"]
            /\ UNCHANGED scenario
       ELSE /\ engine' = [engine EXCEPT !.pc = "drive"]
            /\ scenario' = Settle([Goto(scenario, "status", 1, "available") EXCEPT
                   !.soc_state = [k \in CpIds |-> InitialSoc(scenario.kind)]])
    /\ UNCHANGED <<nconn, transport, running, session, active_cps, wire, arrived,
                   events, replies, tables, client, clock, wd>>

\* run_for_all_charge_points returned
RunDriveDone ==
    /\ engine.pc = "drive"
    /\ scenario.phase = "done"
    /\ engine' = [engine EXCEPT !.pc = "cleanup"]
    /\ UNCHANGED <<nconn, transport, running, session, active_cps, wire, arrived,
                   events, replies, tables, client, clock, wd, scenario>>

\* `except Exception as e:` prints the traceback and re-raises
RunExcept ==
    /\ engine.pc = "drive"
    /\ scenario.phase = "raised"
    /\ engine' = [engine EXCEPT !.pc = "cleanup", !.drive_raised = TRUE,
                                !.traceback_logged = TRUE]
    /\ UNCHANGED <<nconn, transport, running, session, active_cps, wire, arrived,
                   events, replies, tables, client, clock, wd, scenario>>

\* `finally`: `for cp in self._cps: await cp.connection.close()`
RunCloseCp(c) ==
    /\ engine.pc = "cleanup"
    /\ \E i \in 1..Len(engine.cps) :
          /\ engine.cps[i] = c
          /\ \A j \in 1..(i - 1) : transport[engine.cps[j]] = "closed"
    /\ ClientClose(c)

\* `finally`, continued: CentralSystem.stop closes the server with its
\* connections and clears the registry, the CSMS task is cancelled, the CSV
\* files are closed; then run returns, or re-raises what the drive raised
RunCleanup ==
    /\ engine.pc = "cleanup"
    /\ \A i \in 1..Len(engine.cps) : transport[engine.cps[i]] = "closed"
    /\ transport' = [c \in Conns |->
                        IF transport[c] \in {"open", "closing"} THEN "closed"
                        ELSE transport[c]]
    /\ wire' = [c \in Conns |-> <<>>]
    /\ active_cps' = <<>>
    /\ engine' = [engine EXCEPT
                     !.pc = "exit", !.csms = "stopped",
                     !.outcome = IF engine.drive_raised THEN "raised" ELSE "returned"]
    /\ UNCHANGED <<nconn, running, session, arrived, events, replies, tables, client,
                   clock, wd, scenario>>

\* -------------------------------------------------------- specifications
\* authorization and transaction traffic of up to MaxConn connections
Next ==
    \/ \E cp_id \in CpIds : OnConnect(cp_id)
    \/ \E c \in Conns, m \in TxCalls : Send(c, m)
    \/ \E c \in Conns : ClientClose(c)
    \/ \E c \in Conns : OnDisconnect(c)
    \/ \E c \in Conns : on_authorize(c)
    \/ \E c \in Conns : on_start_transaction(c)
    \/ \E c \in Conns : on_meter_values(c)
    \/ \E c \in Conns : on_stop_transaction(c)

Spec == Init /\ [][Next]_vars

\* boot, heartbeat and status traffic under the clock and the watchdog
NextLiveness ==
    \/ \E cp_id \in CpIds : OnConnect(cp_id)
    \/ \E c \in Conns, m \in LivenessCalls : SendLive(c, m)
    \/ \E c \in Conns : ClientClose(c)
    \/ \E c \in Conns : OnDisconnect(c)
    \/ \E c \in Conns : on_boot_notification(c)
    \/ \E c \in Conns : on_heartbeat(c)
    \/ \E c \in Conns : on_status_notification(c)
    \/ Tick
    \/ WatchdogWake
    \/ WatchdogSkip
    \/ WatchdogEvict
    \/ WatchdogClosed
    \/ WatchdogSleep

SpecLiveness == Init /\ [][NextLiveness]_vars

\* CSMS-stamped and CP-stamped traffic under the sub-second clock
NextClock ==
    \/ \E cp_id \in CpIds : OnConnect(cp_id)
    \/ \E c \in Conns, m \in ClockCalls : SendClocked(c, m)
    \/ \E c \in Conns : ClientClose(c)
    \/ \E c \in Conns : OnDisconnect(c)
    \/ \E c \in Conns : on_authorize(c)
    \/ \E c \in Conns : on_start_transaction(c)
    \/ \E c \in Conns : on_status_notification(c)
    \/ \E c \in Conns : on_meter_values(c)
    \/ \E c \in Conns : on_stop_transaction(c)
    \/ ClockTick

SpecClock == Init /\ [][NextClock]_vars

\* the connect phase of ScenarioBase.run alone
ConnectStations == {1, 2, MaxTargets}

NextConnect ==
    \/ \E stations \in ConnectStations : ConnectPhase(stations)
    \/ \E i \in 1..MaxTargets : AttemptConnected(i)
    \/ \E i \in 1..MaxTargets : AttemptFailed(i)
    \/ \E i \in 1..MaxTargets : BackoffOver(i)
    \/ BatchGathered
    \/ ConnectPhaseDone

\* every attempt and every sleep ends: websockets.connect and the boot call
\* have timeouts
SpecConnect == Init /\ [][NextConnect]_vars /\ WF_vars(NextConnect)

\* the CP clients alone, the CSMS being their environment
NextClient ==
    \/ \E c \in Conns : ClientDial(c)
    \/ \E c \in Conns, status \in BootStatuses, interval \in BootIntervals :
          BootAnswered(c, status, interval)
    \/ \E c \in Conns : BootRaised(c)
    \/ \E c \in Conns : HeartbeatDue(c)
    \/ \E c \in Conns : HeartbeatAnswered(c)
    \/ \E c \in Conns : HeartbeatFailed(c)
    \/ \E c \in Conns : ClientCall(c)
    \/ \E c \in Conns : ClientLost(c)

SpecClient == Init /\ [][NextClient]_vars

\* the event bus alone, one write at a time
NextBus ==
    \/ \E t \in BusMessageTypes : BusCall(BusEvent(t))
    \/ BusWriteRaw
    \/ BusWriteTyped
    \/ BusWriteUnified
    \/ BusCrash

SpecBus == Init /\ [][NextBus]_vars

\* the handlers with a callback that can raise
NextFaults ==
    \/ \E cp_id \in CpIds : OnConnect(cp_id)
    \/ \E c \in Conns, m \in ClockCalls \cup LivenessCalls : SendHandled(c, m)
    \/ \E fault \in Faults : Inject(fault)
    \/ \E c \in Conns : on_boot_notification(c)
    \/ \E c \in Conns : on_heartbeat(c)
    \/ \E c \in Conns : on_status_notification(c)
    \/ \E c \in Conns : on_authorize(c)
    \/ \E c \in Conns : on_start_transaction(c)
    \/ \E c \in Conns : on_meter_values(c)
    \/ \E c \in Conns : on_stop_transaction(c)

SpecFaults == Init /\ [][NextFaults]_vars

\* connections that arrive with or without a charge point id in the path
NextPaths ==
    \/ \E path \in Paths : OnConnectPath(path)
    \/ \E c \in Conns, m \in LivenessCalls : SendLive(c, m)
    \/ \E c \in Conns : ClientClose(c)
    \/ \E c \in Conns : OnDisconnect(c)
    \/ \E c \in Conns : on_boot_notification(c)
    \/ \E c \in Conns : on_heartbeat(c)
    \/ \E c \in Conns : on_status_notification(c)

SpecPaths == Init /\ [][NextPaths]_vars

\* traffic of every action the CSMS has a handler for
NextHandlers ==
    \/ \E cp_id \in CpIds : OnConnect(cp_id)
    \/ \E c \in Conns, m \in TxCalls \cup LivenessCalls : SendHandled(c, m)
    \/ \E c \in Conns : ClientClose(c)
    \/ \E c \in Conns : OnDisconnect(c)
    \/ \E c \in Conns : on_boot_notification(c)
    \/ \E c \in Conns : on_heartbeat(c)
    \/ \E c \in Conns : on_status_notification(c)
    \/ \E c \in Conns : on_authorize(c)
    \/ \E c \in Conns : on_start_transaction(c)
    \/ \E c \in Conns : on_meter_values(c)
    \/ \E c \in Conns : on_stop_transaction(c)

SpecHandlers == Init /\ [][NextHandlers]_vars

\* the SoC a meter loop of MaxSocSteps steps sends, scenario by scenario
NextSoc ==
    \/ \E kind \in SocScenarios, mode \in Modes : SocStart(kind, mode)
    \/ SocIterate

SpecSoc == Init /\ [][NextSoc]_vars

\* the command line up to the end of the connect phase
NextCli ==
    \/ \E kind \in SocScenarios, mode \in Modes, duration \in Durations,
          stations \in Conns, cp_list \in CpLists :
          run_simulation(kind, mode, duration, stations, cp_list)
    \/ \E cp_id \in CpIds : ConnectTarget(cp_id)
    \/ \E c \in Conns : RunBoot(c)
    \/ \E c \in Conns : RunConnected(c)
    \/ \E c \in Conns : RunBootFailed(c)
    \/ \E c \in Conns : on_boot_notification(c)

SpecCli == Init /\ [][NextCli]_vars

\* the same run for the relay scenario
RelayScenarios == {"reverse_charging"}

NextRelay ==
    \/ \E kind \in RelayScenarios, mode \in Modes, duration \in Durations,
          stations \in Conns, id_tag \in ScenarioTags :
          RunStart(kind, mode, duration, stations, id_tag)
    \/ \E cp_id \in CpIds : RunDial(cp_id)
    \/ \E c \in Conns : RunBoot(c)
    \/ \E c \in Conns : RunConnected(c)
    \/ \E c \in Conns : RunBootFailed(c)
    \/ RunGaveUp
    \/ RunConnectDone
    \/ ScenarioCall
    \/ ScenarioReturn
    \/ ScenarioRaise
    \/ RunDriveDone
    \/ RunExcept
    \/ \E c \in Conns : RunCloseCp(c)
    \/ RunCleanup
    \/ \E c \in Conns : OnDisconnect(c)
    \/ \E c \in Conns : on_boot_notification(c)
    \/ \E c \in Conns : on_status_notification(c)
    \/ \E c \in Conns : on_authorize(c)
    \/ \E c \in Conns : on_start_transaction(c)
    \/ \E c \in Conns : on_meter_values(c)
    \/ \E c \in Conns : on_stop_transaction(c)

SpecRelay == Init /\ [][NextRelay]_vars

\* one run of the engine: connect, drive a catalog scenario, clean up
NextRun ==
    \/ \E kind \in Scenarios, mode \in Modes, duration \in Durations,
          stations \in Conns, id_tag \in ScenarioTags :
          RunStart(kind, mode, duration, stations, id_tag)
    \/ \E cp_id \in CpIds : RunDial(cp_id)
    \/ \E c \in Conns : RunBoot(c)
    \/ \E c \in Conns : RunConnected(c)
    \/ \E c \in Conns : RunBootFailed(c)
    \/ RunGaveUp
    \/ RunConnectDone
    \/ ScenarioCall
    \/ ScenarioReturn
    \/ ScenarioRaise
    \/ RunDriveDone
    \/ RunExcept
    \/ \E c \in Conns : RunCloseCp(c)
    \/ RunCleanup
    \/ \E c \in Conns : OnDisconnect(c)
    \/ \E c \in Conns : on_boot_notification(c)
    \/ \E c \in Conns : on_status_notification(c)
    \/ \E c \in Conns : on_authorize(c)
    \/ \E c \in Conns : on_start_transaction(c)
    \/ \E c \in Conns : on_meter_values(c)
    \/ \E c \in Conns : on_stop_transaction(c)

SpecRun == Init /\ [][NextRun]_vars

\* ------------------------------------------------------------ the claims
Live(c) == running[c] /\ transport[c] = "open"

IsAcceptedStart(r) == r.action = "StartTransaction" /\ r.status = "Accepted"

IsRejectedStart(r) == r.action = "StartTransaction" /\ r.status # "Accepted"

\* C1: a StartTransaction is answered Accepted, with a non-zero transaction
\* id, exactly when its id_tag is in the session's authorized_tags at the
\* moment the request is handled; otherwise it is answered not Accepted.
C1_StartAcceptedIffAuthorized ==
    [][Len(replies') = Len(replies) + 1 =>
         LET r == replies'[Len(replies')]
             m == CHOOSE x \in {wire[r.conn][i] : i \in 1..Len(wire[r.conn])} :
                      x.n = r.n
             ok == m.id_tag \in session[r.conn].authorized_tags
         IN r.action = "StartTransaction" =>
               /\ ok => r.status = "Accepted" /\ r.transaction_id # REJECTED_TX_ID
               /\ ~ok => r.status # "Accepted"]_vars

C1_Witness ==
    \E i, j \in 1..Len(replies) :
        /\ IsAcceptedStart(replies[i])
        /\ IsRejectedStart(replies[j])
        /\ replies[i].conn = replies[j].conn

\* C2: every accepted StartTransaction event for (cp_id, id_tag) comes after
\* an Authorize event with status Accepted for the same (cp_id, id_tag), and
\* every rejected StartTransaction is answered with transaction_id = 0.
C2_AcceptedStartAfterAuthorize ==
    /\ \A i \in 1..Len(events) :
          events[i].message_type = "StartTransaction" =>
              \E j \in 1..(i - 1) :
                  /\ events[j].message_type = "Authorize"
                  /\ events[j].status = "Accepted"
                  /\ events[j].cp_id = events[i].cp_id
                  /\ events[j].id_tag = events[i].id_tag
    /\ \A i \in 1..Len(replies) :
          IsRejectedStart(replies[i]) => replies[i].transaction_id = REJECTED_TX_ID

C2_Witness ==
    /\ \E i \in 1..Len(events) : events[i].message_type = "StartTransaction"
    /\ \E i \in 1..Len(events) : events[i].message_type = "StartTransactionRejected"
    /\ \E i \in 1..Len(events) :
          events[i].message_type = "Authorize" /\ events[i].status = "Invalid"

\* C3: every MeterValues event with a transaction id comes after a
\* StartTransaction event with the same (cp_id, transaction_id) and after no
\* StopTransaction event with that pair.
C3_MeterValuesReferenceActiveTx ==
    \A i \in 1..Len(events) :
        (events[i].message_type = "MeterValues"
            /\ events[i].transaction_id # NoneInt) =>
            /\ \E j \in 1..(i - 1) :
                  /\ events[j].message_type = "StartTransaction"
                  /\ events[j].cp_id = events[i].cp_id
                  /\ events[j].transaction_id = events[i].transaction_id
            /\ ~\E j \in 1..(i - 1) :
                  /\ events[j].message_type = "StopTransaction"
                  /\ events[j].cp_id = events[i].cp_id
                  /\ events[j].transaction_id = events[i].transaction_id

\* C4: the transaction ids of the accepted StartTransactions of one cp_id are
\* strictly increasing in assignment order over the whole run.
C4_TxIdsIncreasePerCpId ==
    \A i, j \in 1..Len(events) :
        (/\ i < j
         /\ events[i].message_type = "StartTransaction"
         /\ events[j].message_type = "StartTransaction"
         /\ events[i].cp_id = events[j].cp_id) =>
            events[i].transaction_id < events[j].transaction_id

\* the transactions of session c on connector k that were accepted and for
\* which no StopTransaction of that session came afterwards
ActiveTransactions(c, k) ==
    {i \in 1..Len(events) :
        /\ events[i].message_type = "StartTransaction"
        /\ events[i].conn = c
        /\ events[i].connector_id = k
        /\ ~\E j \in (i + 1)..Len(events) :
              /\ events[j].message_type = "StopTransaction"
              /\ events[j].conn = c
              /\ events[j].transaction_id = events[i].transaction_id}

\* C5: in every state each connector of a session has at most one Active
\* transaction.
C5_OneActiveTxPerConnector ==
    \A c \in Conns, k \in ConnectorIds : Cardinality(ActiveTransactions(c, k)) <= 1

\* C6: no two live sessions share a cp_id.
C6_LiveCpIdsUnique ==
    \A c1, c2 \in Conns :
        (c1 # c2 /\ Live(c1) /\ Live(c2)) => session[c1].id # session[c2].id

\* C7: a live, booted session whose last heartbeat is more than 3 * interval
\* plus one watchdog period old has had a CPOffline event for its cp_id.
C7_OfflineWithinOneTick ==
    \A c \in Conns :
        (/\ Live(c)
         /\ session[c].last_heartbeat # NoneInt
         /\ now - session[c].last_heartbeat >
                session[c].heartbeat_interval * OFFLINE_FACTOR + CHECK_INTERVAL) =>
            \E i \in 1..Len(events) :
                /\ events[i].message_type = "CPOffline"
                /\ events[i].cp_id = session[c].id

\* C8: after the CPOffline event of a session no further event of that
\* session is emitted.
C8_NoEventAfterOffline ==
    \A i, j \in 1..Len(events) :
        (i < j /\ events[i].message_type = "CPOffline") =>
            events[j].conn # events[i].conn

\* C9: a StartTransaction is accepted on a session only after an Accepted
\* Authorize for that id_tag on that same session; an Accepted Authorize on
\* another session (another cp_id, or another session of the same cp_id)
\* does not count.
C9_AuthorizedTagsPerSession ==
    \A i \in 1..Len(events) :
        events[i].message_type = "StartTransaction" =>
            \E j \in 1..(i - 1) :
                /\ events[j].message_type = "Authorize"
                /\ events[j].status = "Accepted"
                /\ events[j].conn = events[i].conn
                /\ events[j].id_tag = events[i].id_tag

C9_Witness ==
    \E i, j, k \in 1..Len(events) :
        /\ i < j /\ i < k
        /\ events[i].message_type = "Authorize" /\ events[i].status = "Accepted"
        /\ events[j].message_type = "StartTransactionRejected"
        /\ events[j].id_tag = events[i].id_tag
        /\ events[j].conn # events[i].conn
        /\ events[j].cp_id = events[i].cp_id
        /\ events[k].message_type = "StartTransaction"
        /\ events[k].conn = events[i].conn

\* rows (or events) of one connection appear in the order of arrival
InArrivalOrder(payloads) ==
    \A i, j \in 1..Len(payloads) :
        (i < j /\ payloads[i].conn = payloads[j].conn) =>
            payloads[i].n < payloads[j].n

Payloads(table) == [i \in 1..Len(table) |-> table[i].raw_payload]

\* C10: for one session the events reach the event bus in the order in which
\* its messages arrived on the wire, and the rows of every CSV table are in
\* that same order.
C10_EventsAndRowsInArrivalOrder ==
    /\ InArrivalOrder(events)
    /\ Payloads(raw_rows) = events
    /\ InArrivalOrder(Payloads(csv_rows))
    /\ InArrivalOrder(Payloads(mv_rows))
    /\ InArrivalOrder(Payloads(tx_rows))

C10_Witness ==
    \E i, j, k \in 1..Len(csv_rows) :
        /\ i < j /\ j < k
        /\ csv_rows[i].raw_payload.conn = csv_rows[k].raw_payload.conn
        /\ csv_rows[j].raw_payload.conn # csv_rows[i].raw_payload.conn
        /\ Len(tx_rows) >= 2

NonHeartbeat(evs) == SelectSeq(evs, LAMBDA e : e.message_type # "Heartbeat")

\* C11: in the unified table the step values are strictly increasing in
\* write order over the whole run, whatever the interleaving of the events of
\* the CPs; a Heartbeat event produces no row and consumes no step value.
C11_StepsStrictlyIncrease ==
    /\ \A i, j \in 1..Len(csv_rows) : i < j => csv_rows[i].step < csv_rows[j].step
    /\ \A i \in 1..Len(csv_rows) : csv_rows[i].message_type # "Heartbeat"
    /\ step_counter = Len(NonHeartbeat(events))

C11_Witness ==
    \E i, j, k \in 1..Len(events) :
        /\ i < j /\ j < k
        /\ events[i].message_type # "Heartbeat"
        /\ events[j].message_type = "Heartbeat"
        /\ events[k].message_type # "Heartbeat"
        /\ events[i].conn # events[k].conn
        /\ Len(csv_rows) = 2

\* C13: the number of rows of events_raw equals the sum of the numbers of
\* rows of the typed tables.
C13_RawCountEqualsTypedCount ==
    Len(raw_rows) = Len(hb_rows) + Len(status_rows) + Len(mv_rows) + Len(tx_rows)

\* C14: the unified table holds exactly one row for every events_raw row
\* whose message_type is not Heartbeat, and no row for a Heartbeat event.
C14_UnifiedIsRawMinusHeartbeats ==
    Payloads(csv_rows) = NonHeartbeat(Payloads(raw_rows))

C14_Witness ==
    /\ Len(hb_rows) >= 1
    /\ Len(status_rows) >= 1
    /\ \E i \in 1..Len(csv_rows) : csv_rows[i].message_type = "CPOffline"

\* C12: for every cp_id the timestamp column of the successive rows written
\* for that cp_id is non-decreasing, whatever the mix of events stamped by the
\* CSMS clock and events that carry the timestamp the CP supplied.
C12_TimestampsNonDecreasingPerCpId ==
    \A i, j \in 1..Len(csv_rows) :
        (i < j /\ csv_rows[i].charge_point_id = csv_rows[j].charge_point_id) =>
            csv_rows[i].timestamp <= csv_rows[j].timestamp

\* C15: on every exit path of ScenarioBase.run after the CSMS was started,
\* the transports of all connected CPs are closed and the CSMS is stopped
\* before run returns or raises.
C15_CleanupOnEveryExit ==
    engine.pc = "exit" =>
        /\ engine.csms = "stopped"
        /\ \A i \in 1..Len(engine.cps) : transport[engine.cps[i]] = "closed"

\* C16: when the drive raises, the engine logs the traceback, runs the full
\* cleanup and returns normally: the failure does not propagate out of run.
C16_DriveFailureNotPropagated ==
    (engine.pc = "exit" /\ engine.drive_raised) =>
        /\ engine.traceback_logged
        /\ engine.csms = "stopped"
        /\ engine.outcome = "returned"

\* C17: an OCPP call that fails on one CP, at whatever phase, does not abort
\* the scenario.
C17_FailingCallDoesNotAbort ==
    scenario.failures > 0 => scenario.phase # "raised"

\* C18: a scenario sends MeterValues for a CP only after that CP obtained a
\* transaction from an accepted StartTransaction.
C18_NoMeterValuesWithoutTransaction ==
    \A i \in 1..Len(events) :
        events[i].message_type = "MeterValues" =>
            \E j \in 1..(i - 1) :
                /\ events[j].message_type = "StartTransaction"
                /\ events[j].conn = events[i].conn

IsRowOf(row, message_type, c) ==
    row.message_type = message_type /\ row.raw_payload.conn = c

\* C20: in the mass-stop and remote-command-spoofing scenarios in attack
\* mode, every MeterValues row of a session written after its StopTransaction
\* row has power_kw = 0, and the SoC of those rows no longer increases.
C20_NoPowerAfterSynchronizedStop ==
    (MassStop(scenario.kind) /\ scenario.mode = "attack") =>
        \A i, j \in 1..Len(csv_rows) : \A c \in Conns :
            (i < j /\ IsRowOf(csv_rows[i], "StopTransaction", c)
                   /\ IsRowOf(csv_rows[j], "MeterValues", c)) =>
                /\ csv_rows[j].power_kw = 0
                /\ \A k \in (i + 1)..(j - 1) :
                      IsRowOf(csv_rows[k], "MeterValues", c) =>
                          csv_rows[j].soc_percent <= csv_rows[k].soc_percent

C20_Witness ==
    /\ scenario.phase = "done"
    /\ MassStop(scenario.kind)
    /\ scenario.mode = "attack"
    /\ scenario.failures = 0
    /\ Len(engine.cps) = 2
    /\ \A c \in Conns :
          \E i \in 1..Len(csv_rows) :
              /\ IsRowOf(csv_rows[i], "StopTransaction", c)
              /\ \E h \in 1..(i - 1) :
                    /\ IsRowOf(csv_rows[h], "MeterValues", c)
                    /\ csv_rows[h].power_kw = BASE_POWER_KW
              /\ \E j, k \in (i + 1)..Len(csv_rows) :
                    /\ j < k
                    /\ IsRowOf(csv_rows[j], "MeterValues", c)
                    /\ IsRowOf(csv_rows[k], "MeterValues", c)
\* C21: in the reverse_charging scenario in attack mode every MeterValues
\* row of the unified table whose power sample is negative carries the label
\* reverse_charging_anomaly.
C21_NegativePowerLabelledAnomaly ==
    (scenario.kind = "reverse_charging" /\ scenario.mode = "attack") =>
        \A i \in 1..Len(csv_rows) :
            (csv_rows[i].message_type = "MeterValues" /\ csv_rows[i].power_kw < 0) =>
                csv_rows[i].label = "reverse_charging_anomaly"

\* the SoC the meter loop sends for the first CP after its last pass
SentSoc == FormatSoc(scenario.soc_state[FirstCpId])

\* C22: every SoC value a scenario sends lies between 0 and 100, and from one
\* MeterValues to the next the SoC does not decrease while the power sample
\* is non-negative, for every scenario and every duration.
C22_SocBoundedAndMonotone ==
    /\ [](scenario.phase = "meter" => (0 <= SentSoc /\ SentSoc <= FullSoc))
    /\ [][(scenario.phase = "meter" /\ MeterPower(scenario) >= 0) =>
              SentSoc' >= SentSoc]_vars

\* what an event of the bus shows: its type, status and transaction id
Shown(e) == <<e.message_type, e.status, e.transaction_id>>

RECURSIVE Repeat(_, _)
Repeat(x, n) == IF n = 0 THEN <<>> ELSE <<x>> \o Repeat(x, n - 1)

\* the event sequence of a complete charging session with d meter steps
SessionTrace(d) ==
    <<  <<"BootNotification", NoneStr, NoneInt>>,
        <<"StatusNotification", "Available", NoneInt>>,
        <<"Authorize", "Accepted", NoneInt>>,
        <<"StatusNotification", "Preparing", NoneInt>>,
        <<"StartTransaction", NoneStr, FIRST_TX_ID>>,
        <<"StatusNotification", "Charging", NoneInt>> >>
    \o Repeat(<<"MeterValues", NoneStr, FIRST_TX_ID>>, d)
    \o << <<"StatusNotification", "Finishing", NoneInt>>,
           <<"StopTransaction", NoneStr, FIRST_TX_ID>>,
           <<"StatusNotification", "Available", NoneInt>> >>

\* a failure-free single-CP normal run of the oscillatory-load scenario
\* whose drive has returned
FailureFreeSingleRun ==
    /\ scenario.kind = "dalgali_yuk"
    /\ scenario.mode = "normal"
    /\ scenario.id_tag = "YUNUS_TAG"
    /\ scenario.phase = "done"
    /\ scenario.failures = 0
    /\ engine.stations = 1
    /\ Len(engine.cps) = 1
    /\ engine.gave_up = 0
    /\ engine.abandoned = {}

C24_CpListOverridesStations ==
    engine.pc # "idle" =>
        /\ engine.csms = "running"
        /\ engine.target_cp_ids =
              IF engine.cp_list # NoneList THEN engine.cp_list
              ELSE [idx \in 1..engine.stations |-> CpName(idx)]
        /\ \A c \in 1..nconn :
              \E i \in 1..Len(engine.target_cp_ids) :
                  engine.target_cp_ids[i] = session[c].id

\* the rows of the status table written for connector k of connection c
StatusRowsOf(c, k) ==
    SelectSeq(status_rows,
              LAMBDA row : row.raw_payload.conn = c /\ row.connector_id = k)

\* C25: after the watchdog evicted a CP, the last record of each of its
\* connectors in the status table has status Unavailable.
C25_EvictedConnectorsUnavailableInTable ==
    \A i \in 1..Len(events) :
        events[i].message_type = "CPOffline" =>
            \A k \in ConnectorIds :
                LET rows == StatusRowsOf(events[i].conn, k)
                IN rows # <<>> => rows[Len(rows)].status = "Unavailable"

\* the step is the answer to a call of this action
Answers(action) ==
    /\ Len(replies') = Len(replies) + 1
    /\ replies'[Len(replies')].action = action

\* the step left every session but that of connection c as it was
OtherSessionsUnchanged(c) == \A d \in Conns \ {c} : session'[d] = session[d]

\* C26: a StartTransaction whose id_tag is not in the session's authorized
\* set emits exactly one StartTransactionRejected event, returns
\* (transaction_id 0, Invalid) and leaves the session unchanged; an accepted
\* one emits one StartTransaction event, returns the session's next
\* transaction id, advances that id, and sets the connector to Charging with
\* last_tx_id the returned id, leaving everything else unchanged.
C26_StartTransactionEffect ==
    [][Answers("StartTransaction") =>
        LET r == replies'[Len(replies')]
            c == r.conn
            m == NextMessage(wire[c])
            s == session[c]
            e == events'[Len(events')]
        IN /\ Len(events') = Len(events) + 1
           /\ e.conn = c
           /\ OtherSessionsUnchanged(c)
           /\ session'[c].authorized_tags = s.authorized_tags
           /\ IF m.id_tag \notin s.authorized_tags
              THEN /\ e.message_type = "StartTransactionRejected"
                   /\ r.transaction_id = 0
                   /\ r.status = "Invalid"
                   /\ session'[c] = s
              ELSE /\ e.message_type = "StartTransaction"
                   /\ e.transaction_id = s.next_tx_id
                   /\ r.transaction_id = s.next_tx_id
                   /\ r.status = "Accepted"
                   /\ session'[c].next_tx_id = s.next_tx_id + 1
                   /\ session'[c].connectors[m.connector_id] =
                          [status |-> "Charging", last_tx_id |-> s.next_tx_id]
                   /\ \A k \in ConnectorIds \ {m.connector_id} :
                          session'[c].connectors[k] = s.connectors[k]
    ]_vars

C26_Witness ==
    /\ \E i \in 1..Len(events) : events[i].message_type = "StartTransactionRejected"
    /\ \E i \in 1..Len(events) :
          /\ events[i].message_type = "StartTransaction"
          /\ events[i].transaction_id = FIRST_TX_ID + 1

\* the registry holds connection c
Registered(registry, c) == \E i \in 1..Len(registry) : registry[i].cp = c

\* C27: on a watchdog tick a session of the registry is evicted if and only
\* if its last_heartbeat is known and the tick's time minus last_heartbeat
\* exceeds 3 * I; the eviction emits one CPOffline event, marks every
\* connector of the session Unavailable, closes its transport and removes it
\* from the registry; every other session, and its place in the registry, is
\* left unchanged.
C27_WatchdogEvictsExactlyStaleSessions ==
    [][(wd' # wd /\ wd.pc # "sleep" /\ wd.items # <<>>) =>
        LET c == Head(wd.items).cp
            cp == session[c]
            stale == /\ cp.last_heartbeat # NoneInt
                     /\ wd.at - cp.last_heartbeat > OFFLINE_FACTOR * cp.heartbeat_interval
        IN /\ OtherSessionsUnchanged(c)
           /\ \A d \in Conns \ {c} :
                 /\ transport'[d] = transport[d]
                 /\ Registered(active_cps, d) => Registered(active_cps', d)
           /\ IF wd.pc = "close"
              THEN /\ transport'[c] = "closed"
                   /\ ~Registered(active_cps', c)
                   /\ events' = events
              ELSE IF stale
              THEN /\ Len(events') = Len(events) + 1
                   /\ events'[Len(events')].message_type = "CPOffline"
                   /\ events'[Len(events')].conn = c
                   /\ \A k \in ConnectorIds :
                         cp.connectors[k] # NoConnector =>
                             session'[c].connectors[k].status = "Unavailable"
                   /\ wd'.pc = "close"
              ELSE /\ events' = events
                   /\ session' = session
                   /\ transport' = transport
                   /\ active_cps' = active_cps
    ]_vars

\* C28: in every session the authorized set is a subset of the valid tags
\* and never loses a member, and no StartTransaction is accepted for a tag
\* that is not a valid tag.
C28_AuthorizedTagsValidAndGrowing ==
    /\ [](\A c \in Conns : session[c].authorized_tags \subseteq VALID_TAGS)
    /\ [][\A c \in Conns :
             session[c].authorized_tags \subseteq session'[c].authorized_tags]_vars
    /\ [][(Answers("StartTransaction")
             /\ replies'[Len(replies')].status = "Accepted") =>
            NextMessage(wire[replies'[Len(replies')].conn]).id_tag \in VALID_TAGS]_vars

C28_Witness ==
    /\ \E i \in 1..Len(events) :
          /\ events[i].message_type = "Authorize"
          /\ events[i].status = "Invalid"
          /\ events[i].id_tag \notin VALID_TAGS
          /\ session[events[i].conn].authorized_tags # {}
    /\ \E i \in 1..Len(events) : events[i].message_type = "StartTransaction"

\* C29: a StopTransaction for transaction t is answered whatever t is; it
\* emits exactly one StopTransaction event and sets to Available exactly the
\* connectors of the session whose last_tx_id is t, leaving every other
\* connector, the rest of the session and every other session unchanged.
C29_StopTransactionEffect ==
    [][Answers("StopTransaction") =>
        LET r == replies'[Len(replies')]
            c == r.conn
            t == NextMessage(wire[c]).transaction_id
            s == session[c]
            e == events'[Len(events')]
        IN /\ Len(events') = Len(events) + 1
           /\ e.message_type = "StopTransaction"
           /\ e.conn = c
           /\ e.transaction_id = t
           /\ r.status = NoneStr
           /\ OtherSessionsUnchanged(c)
           /\ session'[c].next_tx_id = s.next_tx_id
           /\ session'[c].authorized_tags = s.authorized_tags
           /\ session'[c].last_heartbeat = s.last_heartbeat
           /\ \A k \in ConnectorIds :
                 session'[c].connectors[k] =
                     IF s.connectors[k] # NoConnector /\ s.connectors[k].last_tx_id = t
                     THEN [status |-> "Available", last_tx_id |-> t]
                     ELSE s.connectors[k]
    ]_vars

\* a stop of transaction 1 was answered for a session whose connector 1 held
\* it: the connector is Available and still holds the transaction id
C29_Witness ==
    \E c \in Conns :
        /\ session[c].connectors[1] = [status |-> "Available", last_tx_id |-> FIRST_TX_ID]
        /\ session[c].connectors[2] = NoConnector
        /\ \E i \in 1..Len(events) :
              /\ events[i].message_type = "StopTransaction"
              /\ events[i].conn = c
              /\ events[i].transaction_id = FIRST_TX_ID

\* the events the callback received for the message that reply r answers
EventsOf(r) == {i \in 1..Len(events) : events[i].conn = r.conn /\ events[i].n = r.n}

\* the message types a handler of this action fires
FiredBy(action) ==
    IF action = "StartTransaction"
    THEN {"StartTransaction", "StartTransactionRejected"}
    ELSE {action}

\* C30: every message the CSMS handled, of any of its seven actions and in
\* any sequence, delivered exactly one event to the callback, of the
\* handler's own type; the callback received nothing else.
C30_OneEventPerHandledMessage ==
    /\ Len(events) = Len(replies)
    /\ \A j \in 1..Len(replies) :
          /\ Cardinality(EventsOf(replies[j])) = 1
          /\ \A i \in EventsOf(replies[j]) :
                events[i].message_type \in FiredBy(replies[j].action)

\* three messages were handled, among them a rejected StartTransaction and
\* a Heartbeat
C30_Witness ==
    /\ Len(replies) = MaxHandledCalls
    /\ \E i \in 1..Len(events) : events[i].message_type = "StartTransactionRejected"
    /\ \E i \in 1..Len(events) : events[i].message_type = "Heartbeat"

\* the rows of the typed tables together
TypedRowCount == Len(hb_rows) + Len(status_rows) + Len(mv_rows) + Len(tx_rows)

\* C31: at every point of an event-bus invocation, between its writes and
\* after a crash between them, events_raw has at least as many rows as the
\* typed tables together, and at least as many rows that are not Heartbeat
\* rows as the unified table has rows.
C31_RawTableMostComplete ==
    /\ Len(raw_rows) >= TypedRowCount
    /\ Len(SelectSeq(raw_rows, LAMBDA row : row.message_type # "Heartbeat"))
          >= Len(csv_rows)

\* the run crashed after the raw row of a MeterValues event was written and
\* before its typed row, a complete StatusNotification invocation before it
C31_Witness ==
    /\ bus.at = "crashed"
    /\ bus.event.message_type = "MeterValues"
    /\ Len(raw_rows) = 2
    /\ Len(status_rows) = 1
    /\ Len(mv_rows) = 0
    /\ Len(csv_rows) = 1

\* the targets whose connect_with_retry returned a CP, in target order
Connected == SelectSeq([i \in 1..Len(engine.retry) |-> i],
                       LAMBDA i : engine.retry[i].result = "cp")

\* C32: for each target CP the engine makes at most 3 connection attempts
\* and waits 0.5 s times the attempt number after each failed attempt but
\* the last; after the third failure it gives up on the target without
\* raising; the retry loop ends; and when at least one CP connected the
\* drive is invoked with exactly the CPs that connected.
C32_ConnectRetry ==
    /\ [](\A i \in 1..Len(engine.retry) :
            LET r == engine.retry[i]
            IN /\ r.tries <= 3
               /\ \A k \in 1..Len(r.waited) : r.waited[k] = 5 * k
               /\ Len(r.waited) = IF r.at = "done" THEN r.tries - 1 ELSE r.tries
               /\ r.result = "None" => r.tries = 3)
    /\ [](engine.outcome # "raised")
    /\ [](engine.pc = "drive" => engine.cps = Connected /\ Connected # <<>>)
    /\ [](engine.pc = "exit" => Connected = <<>>)
    /\ (engine.pc = "connect" ~> engine.pc \in {"drive", "exit"})

\* the drive is invoked after two batches: one target connected at its
\* first attempt, one at its third, and one was given up
C32_Witness ==
    /\ engine.pc = "drive"
    /\ engine.batch = 2
    /\ \E i \in 1..Len(engine.retry) :
          engine.retry[i].result = "None" /\ engine.retry[i].waited = <<5, 10>>
    /\ \E i \in 1..Len(engine.retry) :
          engine.retry[i].result = "cp" /\ engine.retry[i].tries = 3
    /\ \E i \in 1..Len(engine.retry) :
          engine.retry[i].result = "cp" /\ engine.retry[i].tries = 1

\* the step is a Heartbeat call of client c that raised
HeartbeatCallFailed(c) ==
    client[c].loop = "calling" /\ client'[c].ended_at # client[c].ended_at

\* C33: a failed Heartbeat call ends the CP client's heartbeat loop for
\* good, and no Heartbeat is sent by that CP afterwards; the failure closes
\* neither the CP's transport nor its inbound dispatcher.
C33_HeartbeatFailureEndsLoopOnly ==
    /\ [][\A c \in Conns :
             HeartbeatCallFailed(c) =>
                 /\ client'[c].loop = "ended"
                 /\ transport'[c] = transport[c]
                 /\ client'[c].dispatcher = client[c].dispatcher]_vars
    /\ [][\A c \in Conns :
             client[c].ended_at # NoneInt =>
                 /\ client'[c].loop = client[c].loop
                 /\ client'[c].heartbeats = client[c].heartbeats]_vars

\* after its heartbeat loop ended on a failed call, the CP made another call
\* on its open transport
C33_Witness ==
    \E c \in Conns :
        /\ client[c].loop = "ended"
        /\ client[c].heartbeats = 1
        /\ transport[c] = "open"
        /\ client[c].dispatcher
        /\ arrived[c] > client[c].ended_at
        /\ wire[c][Len(wire[c])].action = "StatusNotification"

\* C34: the CP client's heartbeat interval changes only on a
\* BootNotification result whose status is Accepted; a result with another
\* status leaves the interval as it was; the heartbeat loop is started in
\* either case.
C34_IntervalOnlyFromAcceptedBoot ==
    [][\A c \in Conns :
          client[c].loop = "boot" /\ client'[c].loop # "boot" /\ client'[c].loop # "never" =>
              /\ client'[c].loop = "sleeping"
              /\ ~client'[c].boot_accepted =>
                     client'[c].heartbeat_interval = client[c].heartbeat_interval
    ]_vars

\* ceil(d * 0.6)
CeilSixTenths(d) == (d * 6 + 9) \div 10

\* C35: in the mass-stop and the remote-command-spoofing scenario the
\* synchronized StopTransaction is issued in attack mode only, and for
\* every duration d at scenario step ceil(d * 0.6), before the MeterValues
\* of that step.
C35_SynchronizedStopAtCeilStep ==
    scenario.phase = "attack" =>
        /\ MassStop(scenario.kind)
        /\ scenario.mode = "attack"
        /\ scenario.step = CeilSixTenths(scenario.duration)

\* C36: in attack mode every MeterValues row with power sample 0 of the
\* mass-stop scenario is labelled mass_transaction_termination_attack, and
\* of the remote-command-spoofing scenario remote_command_spoofing_attack.
C36_PostStopMeterValuesLabelled ==
    (MassStop(scenario.kind) /\ scenario.mode = "attack") =>
        \A i \in 1..Len(csv_rows) :
            (csv_rows[i].message_type = "MeterValues" /\ csv_rows[i].power_kw = 0) =>
                csv_rows[i].label =
                    IF scenario.kind = "sebeke_istikrarsizligi"
                    THEN "mass_transaction_termination_attack"
                    ELSE "remote_command_spoofing_attack"

\* the step removed no session but c from the registry
OnlyRemoves(c) ==
    \A d \in Conns \ {c} : Registered(active_cps, d) => Registered(active_cps', d)

\* C37: the connection-close path of _on_connect and the watchdog's eviction
\* remove from the registry only the entry of the session they act for,
\* never that of a newer session accepted under the same cp_id.
C37_RemovalOnlyOfOwnEntry ==
    [][/\ \A c \in Conns : (running[c] /\ ~running'[c]) => OnlyRemoves(c)
       /\ (wd.pc = "close" /\ wd'.pc # "close") => OnlyRemoves(Head(wd.items).cp)
    ]_vars

\* the session-state update of the handler that fired event e is in place
UpdateDone(e) ==
    LET cp == session'[e.conn]
    IN CASE e.message_type \in {"BootNotification", "Heartbeat"} ->
                cp.last_heartbeat = now
         [] e.message_type = "StatusNotification" ->
                cp.connectors[e.connector_id].status = e.status
         [] e.message_type = "Authorize" ->
                e.status = "Accepted" => e.id_tag \in cp.authorized_tags
         [] e.message_type = "StartTransaction" ->
                /\ cp.next_tx_id = e.transaction_id + 1
                /\ cp.connectors[e.connector_id] =
                       [status |-> "Charging", last_tx_id |-> e.transaction_id]
         [] e.message_type = "StopTransaction" ->
                \A k \in ConnectorIds :
                    cp.connectors[k].last_tx_id = e.transaction_id =>
                        cp.connectors[k].status = "Available"
         [] OTHER -> cp = session[e.conn]

\* C38: an exception raised by the event callback, by a CSV write inside
\* it or by a hook never reaches the CSMS handler: the handler completes its
\* session-state update and returns its normal response; and a raising hook
\* does not keep the CSV rows of the event from being written.
C38_CallbackFaultsStayOutOfHandlers ==
    [][events' # events =>
        LET e == events'[Len(events')]
        IN /\ Len(replies') = Len(replies) + 1
           /\ replies'[Len(replies')].conn = e.conn
           /\ replies'[Len(replies')].n = e.n
           /\ UpdateDone(e)
           /\ bus.fault = "hook" =>
                 /\ Len(raw_rows') = Len(raw_rows) + 1
                 /\ Len(csv_rows') =
                        Len(csv_rows) + (IF e.message_type = "Heartbeat" THEN 0 ELSE 1)
                 /\ Len(hb_rows') + Len(status_rows') + Len(mv_rows') + Len(tx_rows') =
                        TypedRowCount
                        + (IF e.message_type \in
                                {"Heartbeat", "StatusNotification", "MeterValues",
                                 "StartTransaction", "StopTransaction"}
                           THEN 1 ELSE 0)
    ]_vars

\* three messages were handled and answered; the raw write of one raised,
\* and the typed or the unified write of another
C38_Witness ==
    /\ Len(events) = 3
    /\ Len(replies) = 3
    /\ Len(raw_rows) = 2
    /\ Len(csv_rows) = 1
    /\ \E c \in Conns : session[c].next_tx_id = FIRST_TX_ID + 1

\* C39: a connection that arrives with an empty path is given a generated
\* cp_id that no session in the registry holds at that moment, whatever
\* connects and disconnects came before.
C39_GeneratedCpIdIsFree ==
    [][OnConnectPath(EmptyPath) =>
           ~DictHas(active_cps, GeneratedCpId(active_cps))]_vars
====
